---------------------------- MODULE Spec2Model ----------------------------
(***************************************************************************)
(* A model of the hd-bench drawing generators:                             *)
(*   src/svg_bench_drawer.py  (Point3D, Panel, SVGDrawing, BenchDrawing)   *)
(*   src/bench_3d_viewer.py   (create_box_mesh, the concept lists,         *)
(*                             create_interactive_viewer and its buttons)  *)
(*                                                                         *)
(* Numbers.  Coordinates are Python floats.  They are modelled as binary   *)
(* floating-point numbers with a MantBits-bit significand whose values are *)
(* integers: every result of +, - and * is rounded to the nearest          *)
(* representable value, ties to even, as IEEE-754 does with 53 bits.       *)
(* Python ints (y offsets, list indices, pixel origins) are exact.         *)
(* A cosine or a sine is a whole number of 1/AngleUnit.  The viewer's      *)
(* coordinates are in units of 1/40 inch.                                  *)
(*                                                                         *)
(* Programs.  Spec is a run of the drawing program, ViewerSpec a run of    *)
(* the viewer program, BothSpec a run of either.                           *)
(*                                                                         *)
(* Objects.  Point3D and Panel instances live in two heaps, `points` and   *)
(* `objs`; a reference is an index.  A method that builds a new object     *)
(* appends to the heap, so that "returns a new instance" and "mutates the  *)
(* receiver" are different behaviours of the model.                        *)
(***************************************************************************)
EXTENDS Integers, Sequences, FiniteSets, TLC

\* Bounds of the model.
MaxPanels == 3
MantBits == 12
MaxMeshes == 4

(***************************************************************************)
(* Floating-point arithmetic                                               *)
(***************************************************************************)
RECURSIVE Pow2(_)
Pow2(n) == IF n = 0 THEN 1 ELSE 2 * Pow2(n - 1)

Abs(n) == IF n < 0 THEN -n ELSE n

\* The significand's range: 2^MantBits.
MantLimit == Pow2(MantBits)

\* The multiple of u nearest to a >= 0, ties to the even multiple.
Nearest(a, u) ==
    IF 2 * (a % u) > u \/ (2 * (a % u) = u /\ (a \div u) % 2 = 1)
    THEN (a \div u + 1) * u
    ELSE (a \div u) * u

\* Round a >= 0 to nearest, ties to even; u is the spacing of the
\* representable values around a, found by doubling.
RECURSIVE RoundAbs(_, _)
RoundAbs(a, u) == IF a < MantLimit * u THEN Nearest(a, u) ELSE RoundAbs(a, 2 * u)

Round(n) == IF n < 0 THEN -RoundAbs(-n, 1) ELSE RoundAbs(n, 1)

Representable(n) == Round(n) = n

FAdd(a, b) == Round(a + b)
FSub(a, b) == Round(a - b)
FMul(a, b) == Round(a * b)

(***************************************************************************)
(* The state                                                               *)
(***************************************************************************)
VARIABLES
    points,           \* heap of Point3D instances: [x, y, z]
    objs,             \* heap of Panel instances; position and holes are references
    panels,           \* the panel list handed to the draw_* methods (references)
    exploded_panels,  \* draw_exploded_view's derived list (references)
    elements,         \* SVGDrawing.elements
    defs,             \* SVGDrawing.defs
    y,                \* the y offset threaded through the draw_* calls
    stage,            \* how far the generation run has come
    error,            \* the exception that ended the run, or "none"
    call,             \* the last call: its name and arguments
    bbox,             \* draw_orthographic_views' bounding box
    corners,          \* the last result of Panel.get_corners
    mesh,             \* the last result of create_box_mesh
    ret,              \* the Point3D reference a Point3D method returned, or 0
    svg,              \* the document to_svg returned, or <<>>
    assembled_panels, \* the viewer's list of assembled mesh dicts
    exploded_meshes,  \* the viewer's list of exploded mesh dicts (its exploded_panels)
    fig_data,         \* fig.data: the traces of the figure
    buttons,          \* the two buttons' visibility vectors
    concept_name,     \* the viewer's title, "" for lists that are no concept's
    viewer_stage      \* how far the viewer program has come

viewer_vars == <<assembled_panels, exploded_meshes, fig_data, buttons, concept_name,
                 viewer_stage>>

drawing_vars == <<points, objs, panels, exploded_panels, elements, defs, y, stage,
                  error, call, bbox, corners, mesh, ret, svg>>

vars == <<drawing_vars, viewer_vars>>

Pt(px, py, pz) == [x |-> px, y |-> py, z |-> pz]

(***************************************************************************)
(* Point3D                                                                 *)
(***************************************************************************)
\* __init__: a new instance is appended to the heap.
NewPoint(pts, p) == [points |-> Append(pts, p), ref |-> Len(pts) + 1]

\* math.cos and math.sin return the nearest value the format holds; here a
\* cosine or sine is a whole number of 1/AngleUnit.
AngleUnit == 256

\* A rotation angle, given by the pair math.cos and math.sin return for it:
\* the quarter turns, 45 and -45 degrees, 30 and 60 degrees, and the 35.264
\* degrees of to_isometric.
Angles == {[cos |-> 256, sin |-> 0], [cos |-> 0, sin |-> 256],
           [cos |-> -256, sin |-> 0], [cos |-> 0, sin |-> -256],
           [cos |-> 181, sin |-> 181], [cos |-> 181, sin |-> -181],
           [cos |-> 222, sin |-> 128], [cos |-> 128, sin |-> 222],
           [cos |-> 209, sin |-> 148]}

\* The float product of a coordinate and a cosine or sine c / AngleUnit:
\* the exact product rounded once to the nearest value of the format.
FMulA(v, c) ==
    IF v * c < 0
    THEN -(RoundAbs(-(v * c), AngleUnit) \div AngleUnit)
    ELSE RoundAbs(v * c, AngleUnit) \div AngleUnit

\* rotate_y with the sign of line 26 lost.
rotate_y_sign_lost(pts, r, a) ==
    NewPoint(pts, Pt(FAdd(FMulA(pts[r].x, a.cos), FMulA(pts[r].z, a.sin)),
                     pts[r].y,
                     FAdd(FMulA(pts[r].x, a.sin), FMulA(pts[r].z, a.cos))))

rotate_y(pts, r, a) ==
    NewPoint(pts, Pt(FAdd(FMulA(pts[r].x, a.cos), FMulA(pts[r].z, a.sin)),
                     pts[r].y,
                     FAdd(FMulA(-pts[r].x, a.sin), FMulA(pts[r].z, a.cos))))

rotate_x(pts, r, a) ==
    NewPoint(pts, Pt(pts[r].x,
                     FSub(FMulA(pts[r].y, a.cos), FMulA(pts[r].z, a.sin)),
                     FAdd(FMulA(pts[r].y, a.sin), FMulA(pts[r].z, a.cos))))

translate_inplace(pts, r, dx, dy, dz) ==
    [points |-> [pts EXCEPT ![r] = Pt(FAdd(pts[r].x, dx), FAdd(pts[r].y, dy),
                                      FAdd(pts[r].z, dz))],
     ref |-> r]

translate(pts, r, dx, dy, dz) ==
    NewPoint(pts, Pt(FAdd(pts[r].x, dx), FAdd(pts[r].y, dy), FAdd(pts[r].z, dz)))

(***************************************************************************)
(* Panel                                                                   *)
(***************************************************************************)
\* The dataclass constructor: the fields are stored as given (position and
\* holes by reference).
Panel(name, width, depth, thickness, position, holes, material) ==
    [name |-> name, width |-> width, depth |-> depth, thickness |-> thickness,
     position |-> position, holes |-> holes, material |-> material]

get_corners_swapped(pts, panel) ==
    LET x == pts[panel.position].x
        y0 == pts[panel.position].y
        z == pts[panel.position].z
        w == panel.width
        d == panel.depth
        t == panel.thickness
    IN  << Pt(x, y0, z),
           Pt(FAdd(x, w), y0, z),
           Pt(x, FAdd(y0, d), z),
           Pt(FAdd(x, w), FAdd(y0, d), z),
           Pt(x, y0, FAdd(z, t)),
           Pt(FAdd(x, w), y0, FAdd(z, t)),
           Pt(x, FAdd(y0, d), FAdd(z, t)),
           Pt(FAdd(x, w), FAdd(y0, d), FAdd(z, t)) >>

\* The 8 corners, as values (the method builds 8 fresh Point3D instances,
\* which no caller keeps).
get_corners(pts, panel) ==
    LET x == pts[panel.position].x
        y0 == pts[panel.position].y
        z == pts[panel.position].z
        w == panel.width
        d == panel.depth
        t == panel.thickness
    IN  << Pt(x, y0, z),
           Pt(FAdd(x, w), y0, z),
           Pt(FAdd(x, w), FAdd(y0, d), z),
           Pt(x, FAdd(y0, d), z),
           Pt(x, y0, FAdd(z, t)),
           Pt(FAdd(x, w), y0, FAdd(z, t)),
           Pt(FAdd(x, w), FAdd(y0, d), FAdd(z, t)),
           Pt(x, FAdd(y0, d), FAdd(z, t)) >>

(***************************************************************************)
(* create_box_mesh (bench_3d_viewer.py)                                    *)
(***************************************************************************)
mesh_i == << 0, 0, 1, 1, 2, 2, 3, 3, 4, 4, 5, 5,
             0, 0, 1, 1, 4, 4, 5, 5, 2, 2, 3, 3 >>
mesh_j == << 1, 1, 2, 2, 3, 3, 0, 0, 5, 5, 6, 6,
             4, 4, 5, 5, 7, 7, 6, 6, 6, 6, 7, 7 >>
mesh_k == << 4, 2, 5, 6, 6, 7, 7, 4, 6, 7, 7, 4,
             1, 3, 0, 2, 3, 0, 1, 4, 3, 7, 0, 4 >>

create_box_mesh_depth_first(x, y0, z, width, depth, thickness) ==
    [vertices |-> << <<x, y0, z>>,
                     <<x, FAdd(y0, depth), z>>,
                     <<FAdd(x, width), FAdd(y0, depth), z>>,
                     <<FAdd(x, width), y0, z>>,
                     <<x, y0, FAdd(z, thickness)>>,
                     <<x, FAdd(y0, depth), FAdd(z, thickness)>>,
                     <<FAdd(x, width), FAdd(y0, depth), FAdd(z, thickness)>>,
                     <<FAdd(x, width), y0, FAdd(z, thickness)>> >>,
     i |-> mesh_i, j |-> mesh_j, k |-> mesh_k]

\* vertices is the 8x3 array; i, j, k index it from 0, as in the source.
create_box_mesh(x, y0, z, width, depth, thickness) ==
    [vertices |-> << <<x, y0, z>>,
                     <<FAdd(x, width), y0, z>>,
                     <<FAdd(x, width), FAdd(y0, depth), z>>,
                     <<x, FAdd(y0, depth), z>>,
                     <<x, y0, FAdd(z, thickness)>>,
                     <<FAdd(x, width), y0, FAdd(z, thickness)>>,
                     <<FAdd(x, width), FAdd(y0, depth), FAdd(z, thickness)>>,
                     <<x, FAdd(y0, depth), FAdd(z, thickness)>> >>,
     i |-> mesh_i, j |-> mesh_j, k |-> mesh_k]

(***************************************************************************)
(* SVGDrawing                                                              *)
(***************************************************************************)
\* A screen point.  An orthographic or flat-pattern point is the pair
\* (sx, sy).  An isometric point is the pixel origin (sx, sy) plus
\* Point3D.to_isometric of the 3D point iso[1..3] at scale iso[4], plus dx
\* on the x axis; the projection's cosines and sines are not evaluated.
P2(sx, sy) == [sx |-> sx, sy |-> sy, iso |-> <<>>, dx |-> 0]

IsoP(x_center, y_center, p, scale, dx) ==
    [sx |-> x_center, sy |-> y_center, iso |-> <<p.x, p.y, p.z, scale>>, dx |-> dx]

\* One entry of SVGDrawing.elements: the element's kind, its points, its
\* size (rect: w, h; circle: r in w), its text, and the attributes that
\* tell the elements of one method apart (stroke width, dash, markers).
Elem(kind, pts, w, h, text, sw, dash, ms, me) ==
    [kind |-> kind, pts |-> pts, w |-> w, h |-> h, text |-> text,
     sw |-> sw, dash |-> dash, ms |-> ms, me |-> me]

\* Each method appends one element (add_element); they return the new list.
line(els, p1, p2, sw, dash, ms, me) ==
    Append(els, Elem("line", <<p1, p2>>, 0, 0, "", sw, dash, ms, me))

rect(els, p, w, h) ==
    Append(els, Elem("rect", <<p>>, w, h, "", "1", "", "", ""))

circle(els, c, r, sw) ==
    Append(els, Elem("circle", <<c>>, r, 0, "", sw, "", "", ""))

polygon(els, pts) ==
    Append(els, Elem("polygon", pts, 0, 0, "", "0.5", "", "", ""))

text(els, p, txt) ==
    Append(els, Elem("text", <<p>>, 0, 0, txt, "", "", "", ""))

\* math.sqrt, correctly rounded: the integer nearest to the square root.
RECURSIVE SqrtBetween(_, _, _)
SqrtBetween(n, lo, hi) ==
    IF hi - lo <= 1 THEN lo
    ELSE IF ((lo + hi) \div 2) * ((lo + hi) \div 2) <= n
         THEN SqrtBetween(n, (lo + hi) \div 2, hi)
         ELSE SqrtBetween(n, lo, (lo + hi) \div 2)

\* r is the floor of the root, between 0 and MantLimit; the root is nearer to
\* r + 1 when n > r^2 + r.
FSqrt(n) ==
    LET r == SqrtBetween(n, 0, MantLimit)
    IN  IF n - r * r > r THEN r + 1 ELSE r

\* Float division where the quotient is an integer.
FDiv(a, b) == IF (a < 0) # (b < 0) THEN -(Abs(a) \div Abs(b)) ELSE Abs(a) \div Abs(b)

\* math.degrees(math.atan2(dy, dx)) for a segment parallel to an axis,
\* then the flip of lines 189-190.
TextAngle(dx, dy) ==
    LET angle == IF dy = 0 THEN (IF dx >= 0 THEN 0 ELSE 180)
                 ELSE (IF dy > 0 THEN 90 ELSE -90)
    IN  IF angle > 90 \/ angle < -90 THEN angle + 180 ELSE angle

dimension_line_unguarded(els, x1, y1, x2, y2, label, offset) ==
    LET dx == FSub(x2, x1)
        dy == FSub(y2, y1)
        length == FSqrt(FAdd(FMul(dx, dx), FMul(dy, dy)))
        px == IF length = 0 THEN 0 ELSE FDiv(-dy, length)
        py == IF length = 0 THEN 0 ELSE FDiv(dx, length)
        ox1 == FAdd(x1, FMul(px, offset))
        oy1 == FAdd(y1, FMul(py, offset))
        ox2 == FAdd(x2, FMul(px, offset))
        oy2 == FAdd(y2, FMul(py, offset))
        mid_x == FDiv(FAdd(ox1, ox2), 2)
        mid_y == FDiv(FAdd(oy1, oy2), 2)
        e1 == line(els, P2(x1, y1), P2(ox1, oy1), "0.3", "", "", "")
        e2 == line(e1, P2(x2, y2), P2(ox2, oy2), "0.3", "", "", "")
        e3 == line(e2, P2(ox1, oy1), P2(ox2, oy2), "0.5", "",
                   "url(#arrowhead-start)", "url(#arrowhead)")
    IN  Append(e3, Elem("text", <<P2(mid_x, FSub(mid_y, 3))>>, TextAngle(dx, dy), 0,
                        label, "", "", "", ""))

\* dimension_line with the offset taken along (dy, -dx).
dimension_line_other_side(els, x1, y1, x2, y2, label, offset) ==
    LET dx == FSub(x2, x1)
        dy == FSub(y2, y1)
        length == FSqrt(FAdd(FMul(dx, dx), FMul(dy, dy)))
    IN  IF length = 0 THEN els
        ELSE
        LET px == FDiv(dy, length)
            py == FDiv(-dx, length)
            ox1 == FAdd(x1, FMul(px, offset))
            oy1 == FAdd(y1, FMul(py, offset))
            ox2 == FAdd(x2, FMul(px, offset))
            oy2 == FAdd(y2, FMul(py, offset))
            mid_x == FDiv(FAdd(ox1, ox2), 2)
            mid_y == FDiv(FAdd(oy1, oy2), 2)
            e1 == line(els, P2(x1, y1), P2(ox1, oy1), "0.3", "", "", "")
            e2 == line(e1, P2(x2, y2), P2(ox2, oy2), "0.3", "", "", "")
            e3 == line(e2, P2(ox1, oy1), P2(ox2, oy2), "0.5", "",
                       "url(#arrowhead-start)", "url(#arrowhead)")
        IN  Append(e3, Elem("text", <<P2(mid_x, FSub(mid_y, 3))>>, TextAngle(dx, dy), 0,
                            label, "", "", "", ""))

\* The text element's rotation angle is kept in w.
dimension_line(els, x1, y1, x2, y2, label, offset) ==
    LET dx == FSub(x2, x1)
        dy == FSub(y2, y1)
        length == FSqrt(FAdd(FMul(dx, dx), FMul(dy, dy)))
    IN  IF length = 0 THEN els
        ELSE
        LET px == FDiv(-dy, length)
            py == FDiv(dx, length)
            ox1 == FAdd(x1, FMul(px, offset))
            oy1 == FAdd(y1, FMul(py, offset))
            ox2 == FAdd(x2, FMul(px, offset))
            oy2 == FAdd(y2, FMul(py, offset))
            mid_x == FDiv(FAdd(ox1, ox2), 2)
            mid_y == FDiv(FAdd(oy1, oy2), 2)
            e1 == line(els, P2(x1, y1), P2(ox1, oy1), "0.3", "", "", "")
            e2 == line(e1, P2(x2, y2), P2(ox2, oy2), "0.3", "", "", "")
            e3 == line(e2, P2(ox1, oy1), P2(ox2, oy2), "0.5", "",
                       "url(#arrowhead-start)", "url(#arrowhead)")
        IN  Append(e3, Elem("text", <<P2(mid_x, FSub(mid_y, 3))>>, TextAngle(dx, dy), 0,
                            label, "", "", "", ""))

\* add_arrow_markers: the two marker definitions.
add_arrow_markers(ds) == ds \o <<"arrowhead", "arrowhead-start">>

\* " ".join(self.defs)
RECURSIVE JoinDefs(_)
JoinDefs(ds) ==
    IF ds = <<>> THEN ""
    ELSE IF Len(ds) = 1 THEN ds[1]
    ELSE ds[1] \o " " \o JoinDefs(Tail(ds))

\* The document with the newest element first.
to_svg_newest_first(ds, els) ==
    << Elem("svg", <<>>, 1200, 1600, "", "", "", "", ""),
       Elem("defs", <<>>, 0, 0, JoinDefs(ds), "", "", "", "") >>
    \o [n \in 1..Len(els) |-> els[Len(els) + 1 - n]]
    \o << Elem("/svg", <<>>, 0, 0, "", "", "", "", "") >>

\* to_svg: the document as its parts in order: the svg tag with the
\* drawing's width and height, the defs section (empty without defs), the
\* elements joined in list order, the closing tag.
to_svg(ds, els) ==
    << Elem("svg", <<>>, 1200, 1600, "", "", "", "", ""),
       Elem("defs", <<>>, 0, 0, JoinDefs(ds), "", "", "", "") >>
    \o els
    \o << Elem("/svg", <<>>, 0, 0, "", "", "", "", "") >>

(***************************************************************************)
(* BenchDrawing                                                            *)
(***************************************************************************)
\* The elementwise minimum and maximum of lines 262-267.
MinOf(S) == CHOOSE m \in S : \A v \in S : m <= v
MaxOf(S) == CHOOSE m \in S : \A v \in S : m >= v

\* all_corners of lines 258-260: the corners of every panel, in list order.
RECURSIVE all_corners(_, _, _)
all_corners(pts, os, ps) ==
    IF ps = <<>> THEN <<>>
    ELSE get_corners(pts, os[Head(ps)]) \o all_corners(pts, os, Tail(ps))

bounding_box_first_panel(pts, os, ps) ==
    LET ac == get_corners(pts, os[ps[1]])
        xs == {ac[n].x : n \in DOMAIN ac}
        ys == {ac[n].y : n \in DOMAIN ac}
        zs == {ac[n].z : n \in DOMAIN ac}
    IN  [min_x |-> MinOf(xs), max_x |-> MaxOf(xs), min_y |-> MinOf(ys),
         max_y |-> MaxOf(ys), min_z |-> MinOf(zs), max_z |-> MaxOf(zs)]

bounding_box(pts, os, ps) ==
    LET ac == all_corners(pts, os, ps)
        xs == {ac[n].x : n \in DOMAIN ac}
        ys == {ac[n].y : n \in DOMAIN ac}
        zs == {ac[n].z : n \in DOMAIN ac}
    IN  [min_x |-> MinOf(xs), max_x |-> MaxOf(xs), min_y |-> MinOf(ys),
         max_y |-> MaxOf(ys), min_z |-> MinOf(zs), max_z |-> MaxOf(zs)]

NoBox == [min_x |-> 0, max_x |-> 0, min_y |-> 0, max_y |-> 0, min_z |-> 0, max_z |-> 0]

\* draw_title_block: two text lines and a rule.
draw_title_block(els, y_offset) ==
    LET e1 == text(els, P2(50, y_offset), "concept_name")
        e2 == text(e1, P2(50, y_offset + 22), "Sheet Metal Bench - SendCutSend Fabrication")
    IN  line(e2, P2(50, y_offset + 32), P2(1150, y_offset + 32), "0.5", "", "", "")

\* The projections of lines 278-285, 309-316 and 329-336: one corner to one
\* screen point.
top_point_unscaled(c, bb, ox, oy, scale) ==
    P2(FAdd(ox, FSub(c.x, bb.min_x)), FAdd(oy, FSub(c.y, bb.min_y)))

top_point(c, bb, ox, oy, scale) ==
    P2(FAdd(ox, FMul(FSub(c.x, bb.min_x), scale)),
       FAdd(oy, FMul(FSub(c.y, bb.min_y), scale)))

front_point(c, bb, ox, oy, scale) ==
    P2(FAdd(ox, FMul(FSub(c.x, bb.min_x), scale)),
       FSub(oy + 250, FMul(FSub(c.z, bb.min_z), scale)))

side_point(c, bb, ox, oy, scale) ==
    P2(FAdd(ox, FMul(FSub(c.y, bb.min_y), scale)),
       FSub(oy + 250, FMul(FSub(c.z, bb.min_z), scale)))

RECURSIVE top_holes_local(_, _, _, _, _, _, _, _)
top_holes_local(els, pts, panel, hs, bb, ox, oy, scale) ==
    IF hs = <<>> THEN els
    ELSE top_holes_local(circle(els, top_point(pts[Head(hs)], bb, ox, oy, scale), 2, "1"),
                         pts, panel, Tail(hs), bb, ox, oy, scale)

\* Lines 289-298: the holes of one panel, in the top view.
RECURSIVE top_holes(_, _, _, _, _, _, _, _)
top_holes(els, pts, panel, hs, bb, ox, oy, scale) ==
    IF hs = <<>> THEN els
    ELSE LET hole == pts[Head(hs)]
             hole_world == Pt(FAdd(pts[panel.position].x, hole.x),
                              FAdd(pts[panel.position].y, hole.y),
                              FAdd(pts[panel.position].z, hole.z))
         IN  top_holes(circle(els, top_point(hole_world, bb, ox, oy, scale), 2, "1"),
                       pts, panel, Tail(hs), bb, ox, oy, scale)

\* Lines 274-298: the top view's loop over the panels.
RECURSIVE top_view(_, _, _, _, _, _, _, _)
top_view(els, pts, os, ps, bb, ox, oy, scale) ==
    IF ps = <<>> THEN els
    ELSE LET panel == os[Head(ps)]
             c == get_corners(pts, panel)
             e1 == polygon(els, << top_point(c[1], bb, ox, oy, scale),
                                   top_point(c[2], bb, ox, oy, scale),
                                   top_point(c[3], bb, ox, oy, scale),
                                   top_point(c[4], bb, ox, oy, scale) >>)
         IN  top_view(top_holes(e1, pts, panel, panel.holes, bb, ox, oy, scale),
                      pts, os, Tail(ps), bb, ox, oy, scale)

\* Lines 305-318.
RECURSIVE front_view(_, _, _, _, _, _, _, _)
front_view(els, pts, os, ps, bb, ox, oy, scale) ==
    IF ps = <<>> THEN els
    ELSE LET c == get_corners(pts, os[Head(ps)])
         IN  front_view(polygon(els, << front_point(c[1], bb, ox, oy, scale),
                                        front_point(c[2], bb, ox, oy, scale),
                                        front_point(c[6], bb, ox, oy, scale),
                                        front_point(c[5], bb, ox, oy, scale) >>),
                        pts, os, Tail(ps), bb, ox, oy, scale)

\* Lines 325-338.
RECURSIVE side_view(_, _, _, _, _, _, _, _)
side_view(els, pts, os, ps, bb, ox, oy, scale) ==
    IF ps = <<>> THEN els
    ELSE LET c == get_corners(pts, os[Head(ps)])
         IN  side_view(polygon(els, << side_point(c[1], bb, ox, oy, scale),
                                       side_point(c[4], bb, ox, oy, scale),
                                       side_point(c[8], bb, ox, oy, scale),
                                       side_point(c[5], bb, ox, oy, scale) >>),
                       pts, os, Tail(ps), bb, ox, oy, scale)

\* draw_orthographic_views for a non-empty list: the elements it appends,
\* given the bounding box bb of lines 258-267.  y1 is y_offset after line
\* 255, y2 after line 272.
draw_orthographic_views(els, pts, os, ps, bb, y_offset, scale) ==
    LET x_start == 100
        spacing == 350
        y1 == y_offset + 25
        y2 == y1 + 20
        e0 == text(els, P2(50, y_offset), "ORTHOGRAPHIC VIEWS")
        e1 == text(e0, P2(x_start + 50, y1), "Top View")
        e2 == top_view(e1, pts, os, ps, bb, x_start, y2, scale)
        front_x == x_start + spacing
        e3 == text(e2, P2(front_x + 50, y2 - 20), "Front View")
        e4 == front_view(e3, pts, os, ps, bb, front_x, y2, scale)
        side_x == x_start + spacing * 2
        e5 == text(e4, P2(side_x + 50, y2 - 20), "Right Side View")
    IN  side_view(e5, pts, os, ps, bb, side_x, y2, scale)

\* Lines 353-388: bottom, top and right face of each panel.
RECURSIVE iso_faces(_, _, _, _, _, _, _)
iso_faces(els, pts, os, ps, xc, yc, scale) ==
    IF ps = <<>> THEN els
    ELSE LET c == get_corners(pts, os[Head(ps)])
             e1 == polygon(els, << IsoP(xc, yc, c[1], scale, 0), IsoP(xc, yc, c[2], scale, 0),
                                   IsoP(xc, yc, c[3], scale, 0), IsoP(xc, yc, c[4], scale, 0) >>)
             e2 == polygon(e1, << IsoP(xc, yc, c[5], scale, 0), IsoP(xc, yc, c[6], scale, 0),
                                  IsoP(xc, yc, c[7], scale, 0), IsoP(xc, yc, c[8], scale, 0) >>)
             e3 == polygon(e2, << IsoP(xc, yc, c[2], scale, 0), IsoP(xc, yc, c[3], scale, 0),
                                  IsoP(xc, yc, c[7], scale, 0), IsoP(xc, yc, c[6], scale, 0) >>)
         IN  iso_faces(e3, pts, os, Tail(ps), xc, yc, scale)

\* str() of a float with an integer value, as f"{v}" and f"{v:.1f}" give it.
FloatStr(v) == ToString(v) \o ".0"

\* Lines 394-397: one materials line per panel; i counts from 0.
RECURSIVE material_notes(_, _, _, _, _, _)
material_notes(els, os, ps, i, mx, my) ==
    IF ps = <<>> THEN els
    ELSE material_notes(text(els, P2(mx, my + 16 + i * 14),
                             os[Head(ps)].name \o ": " \o os[Head(ps)].material
                                 \o " " \o FloatStr(os[Head(ps)].thickness) \o "\""),
                        os, Tail(ps), i + 1, mx, my)

\* draw_isometric_view: the elements it appends.
draw_isometric_view(els, pts, os, ps, y_offset, scale) ==
    LET y1 == y_offset + 25
        x_center == 400
        y_center == y1 + 150
        e0 == text(els, P2(50, y_offset), "ISOMETRIC VIEW")
        e1 == iso_faces(e0, pts, os, ps, x_center, y_center, scale)
        materials_y == y_center + 200
        e2 == text(e1, P2(x_center + 250, materials_y), "Materials")
    IN  material_notes(e2, os, ps, 0, x_center + 250, materials_y)

\* Line 416: the signed offset of panel i (from 0) of n.
explode_offset_ceil(explode_distance, i, n) == FMul(explode_distance, i - (n + 1) \div 2)

explode_offset_from_one(explode_distance, i, n) == FMul(explode_distance, i + 1 - n \div 2)

explode_offset(explode_distance, i, n) == FMul(explode_distance, i - n \div 2)

\* Lines 413-422: the loop that derives exploded_panels.  h holds the two
\* heaps and the list built so far; i counts from 0.
RECURSIVE explode(_, _, _, _)
explode(h, ps, i, explode_distance) ==
    IF i >= Len(ps) THEN h
    ELSE LET panel == h.objs[ps[i + 1]]
             offset == explode_offset(explode_distance, i, Len(ps))
             t == translate(h.points, panel.position, 0, 0, offset)
             exploded_panel == Panel(panel.name, panel.width, panel.depth,
                                     panel.thickness, t.ref, panel.holes,
                                     panel.material)
         IN  explode([points |-> t.points,
                      objs |-> Append(h.objs, exploded_panel),
                      out |-> Append(h.out, Len(h.objs) + 1)],
                     ps, i + 1, explode_distance)

\* The faces of the exploded panels with the right face drawn first.
RECURSIVE exploded_faces_right_first(_, _, _, _, _, _, _)
exploded_faces_right_first(els, pts, os, ps, xc, yc, scale) ==
    IF ps = <<>> THEN els
    ELSE LET c == get_corners(pts, os[Head(ps)])
             e1 == polygon(els, << IsoP(xc, yc, c[2], scale, 0), IsoP(xc, yc, c[3], scale, 0),
                                   IsoP(xc, yc, c[7], scale, 0), IsoP(xc, yc, c[6], scale, 0) >>)
             e2 == polygon(e1, << IsoP(xc, yc, c[5], scale, 0), IsoP(xc, yc, c[6], scale, 0),
                                  IsoP(xc, yc, c[7], scale, 0), IsoP(xc, yc, c[8], scale, 0) >>)
             e3 == text(e2, IsoP(xc, yc, c[7], scale, 10), os[Head(ps)].name)
         IN  exploded_faces_right_first(e3, pts, os, Tail(ps), xc, yc, scale)

\* Lines 425-453: top face, right face and label of each exploded panel.
RECURSIVE exploded_faces(_, _, _, _, _, _, _)
exploded_faces(els, pts, os, ps, xc, yc, scale) ==
    IF ps = <<>> THEN els
    ELSE LET c == get_corners(pts, os[Head(ps)])
             e1 == polygon(els, << IsoP(xc, yc, c[5], scale, 0), IsoP(xc, yc, c[6], scale, 0),
                                   IsoP(xc, yc, c[7], scale, 0), IsoP(xc, yc, c[8], scale, 0) >>)
             e2 == polygon(e1, << IsoP(xc, yc, c[2], scale, 0), IsoP(xc, yc, c[3], scale, 0),
                                  IsoP(xc, yc, c[7], scale, 0), IsoP(xc, yc, c[6], scale, 0) >>)
             e3 == text(e2, IsoP(xc, yc, c[7], scale, 10), os[Head(ps)].name)
         IN  exploded_faces(e3, pts, os, Tail(ps), xc, yc, scale)

\* Arrows from corner 6 of panel 0 to corner 4 of each later panel.
RECURSIVE assembly_arrows_from_first(_, _, _, _, _, _, _, _)
assembly_arrows_from_first(els, pts, os, ps, i, xc, yc, scale) ==
    IF i >= Len(ps) - 1 THEN els
    ELSE LET p1 == get_corners(pts, os[ps[1]])[7]
             p2 == get_corners(pts, os[ps[i + 2]])[5]
         IN  assembly_arrows_from_first(
                 line(els, IsoP(xc, yc, p1, scale, 0), IsoP(xc, yc, p2, scale, 0),
                      "0.5", "2,2", "", ""),
                 pts, os, ps, i + 1, xc, yc, scale)

\* Lines 456-467: an arrow from corner 6 of panel i to corner 4 of panel i+1.
RECURSIVE assembly_arrows(_, _, _, _, _, _, _, _)
assembly_arrows(els, pts, os, ps, i, xc, yc, scale) ==
    IF i >= Len(ps) - 1 THEN els
    ELSE LET p1 == get_corners(pts, os[ps[i + 1]])[7]
             p2 == get_corners(pts, os[ps[i + 2]])[5]
         IN  assembly_arrows(line(els, IsoP(xc, yc, p1, scale, 0), IsoP(xc, yc, p2, scale, 0),
                                  "0.5", "2,2", "", ""),
                             pts, os, ps, i + 1, xc, yc, scale)

\* draw_exploded_view: the elements it appends, given the heaps and the
\* derived list eps that the loop of lines 413-422 leaves.
draw_exploded_view(els, pts, os, eps, y_offset, scale) ==
    LET y1 == y_offset + 25
        x_center == 400
        y_center == y1 + 150
        e0 == text(els, P2(50, y_offset), "EXPLODED ASSEMBLY")
        e1 == exploded_faces(e0, pts, os, eps, x_center, y_center, scale)
    IN  assembly_arrows(e1, pts, os, eps, 0, x_center, y_center, scale)

\* Lines 494-501: hole circles and their labels (the constant diameter
\* label of line 500, in ASCII).
RECURSIVE flat_holes(_, _, _, _, _, _)
flat_holes(els, pts, hs, px, py, scale) ==
    IF hs = <<>> THEN els
    ELSE LET hole == pts[Head(hs)]
             hx == FAdd(px, FMul(hole.x, scale))
             hy == FAdd(py, FMul(hole.y, scale))
             e1 == circle(els, P2(hx, hy), 2, "0.5")
         IN  flat_holes(text(e1, P2(FAdd(hx, 6), FAdd(hy, 3)), "hole 0.25"),
                        pts, Tail(hs), px, py, scale)

\* f"{v:.1f}\"" of lines 505 and 507.
DimLabel(v) == FloatStr(v) \o "\""

\* The loop with a wrap that goes back to the top of the same column.
RECURSIVE flat_loop_same_column(_, _, _, _, _, _, _, _)
flat_loop_same_column(els, pts, os, ps, x_offset, y_pos, y_offset, scale) ==
    IF ps = <<>>
    THEN [elements |-> els,
          ret |-> IF y_pos > y_offset + 300 THEN y_pos ELSE y_offset + 300]
    ELSE LET panel == os[Head(ps)]
             ph == FMul(panel.depth, scale)
             e1 == rect(els, P2(x_offset, y_pos), FMul(panel.width, scale), ph)
             y_next == FAdd(y_pos, FAdd(ph, 80))
         IN  flat_loop_same_column(e1, pts, os, Tail(ps), x_offset,
                                   IF y_next > 1400 THEN y_offset ELSE y_next,
                                   y_offset, scale)

\* Lines 483-522: the loop over the panels, and the return value
\* max(y_pos, y_offset + 300) after it.
RECURSIVE flat_loop(_, _, _, _, _, _, _, _)
flat_loop(els, pts, os, ps, x_offset, y_pos, y_offset, scale) ==
    IF ps = <<>>
    THEN [elements |-> els,
          ret |-> IF y_pos > y_offset + 300 THEN y_pos ELSE y_offset + 300]
    ELSE LET panel == os[Head(ps)]
             px == x_offset
             py == y_pos
             pw == FMul(panel.width, scale)
             ph == FMul(panel.depth, scale)
             e1 == rect(els, P2(px, py), pw, ph)
             e2 == flat_holes(e1, pts, panel.holes, px, py, scale)
             e3 == dimension_line(e2, px, py, FAdd(px, pw), py, DimLabel(panel.width), -15)
             e4 == dimension_line(e3, px, py, px, FAdd(py, ph), DimLabel(panel.depth), -15)
             e5 == text(e4, P2(FAdd(px, FDiv(pw, 2)), FSub(py, 25)), panel.name)
             e6 == text(e5, P2(FAdd(px, FDiv(pw, 2)), FSub(py, 14)),
                        panel.material \o " - " \o FloatStr(panel.thickness)
                            \o "\" thick")
             y_next == FAdd(y_pos, FAdd(ph, 80))
         IN  flat_loop(e6, pts, os, Tail(ps),
                       IF y_next > 1400 THEN x_offset + 400 ELSE x_offset,
                       IF y_next > 1400 THEN y_offset ELSE y_next,
                       y_offset, scale)

\* draw_flat_patterns: the elements after it and the value it returns
\* (line 522, at the end of the loop).
draw_flat_patterns(els, pts, os, ps, y_offset, scale) ==
    flat_loop(text(text(els, P2(50, y_offset), "FLAT PATTERNS"),
                   P2(50, y_offset + 16), "For SendCutSend DXF Export"),
              pts, os, ps, 100, y_offset + 35, y_offset + 35, scale)

(***************************************************************************)
(* Inputs                                                                  *)
(***************************************************************************)
\* The panels a list is drawn from, as the constructor arguments of lines
\* 538-594 give them: name, width, depth, thickness, position, holes,
\* material.  The last two have a zero width and a zero depth.
PanelPool ==
    { [name |-> "Seat Panel", width |-> 60, depth |-> 11, thickness |-> 1,
       pos |-> Pt(0, 0, 16), holes |-> <<Pt(2, 2, 0), Pt(58, 9, 0)>>,
       material |-> "304 Stainless Steel"],
      [name |-> "Left Leg", width |-> 10, depth |-> 5, thickness |-> 2,
       pos |-> Pt(0, 0, 0), holes |-> <<>>, material |-> "304 Stainless Steel"],
      [name |-> "Right Leg", width |-> 10, depth |-> 5, thickness |-> 2,
       pos |-> Pt(20, 0, 0), holes |-> <<Pt(2, 3, 0)>>, material |-> "304 Stainless Steel"],
      [name |-> "Strip", width |-> 0, depth |-> 4, thickness |-> 1,
       pos |-> Pt(3, 1, 1), holes |-> <<>>, material |-> "Mild Steel"],
      [name |-> "Edge", width |-> 8, depth |-> 0, thickness |-> 3,
       pos |-> Pt(1, 2, 1), holes |-> <<Pt(4, 0, 0)>>, material |-> "Mild Steel"] }

\* Lists of distinct panels.
PanelLists ==
    { l \in UNION { [1..n -> PanelPool] : n \in 0..MaxPanels } :
        \A m, n \in DOMAIN l : m # n => l[m] # l[n] }

\* Scale factors: for the orthographic views (2.0 is line 247's default), and
\* for the other sections (an even scale keeps the halves of line 510 whole).
Scales == {2, 4}
OtherScales == {2}
\* The scales of draw_flat_patterns: at 20 the seat alone passes the limit
\* of line 518.
FlatScales == {2, 20}

\* Explode distances: the default (5.0, line 403) and one large enough that
\* position + offset needs more significant bits than a float has.
Distances == {5, Pow2(MantBits + 1)}

\* Translation vectors for Point3D.translate.
Deltas == {<<0, 0, 5>>, <<3, -2, 0>>}

\* Endpoints for SVGDrawing.dimension_line, and its offsets (the default,
\* line 155, and that of lines 505 and 507).
DimPoints == {<<5, 5>>, <<9, 5>>, <<5, 9>>}
DimOffsets == {20, -15}

\* Construction: each Point3D(...) and Panel(...) call allocates an instance.
RECURSIVE NewPoints(_, _)
NewPoints(h, ps) ==
    IF ps = <<>> THEN h
    ELSE LET n == NewPoint(h.points, Head(ps))
         IN  NewPoints([points |-> n.points, refs |-> Append(h.refs, n.ref)], Tail(ps))

RECURSIVE Construct(_, _)
Construct(h, list) ==
    IF list = <<>> THEN h
    ELSE LET a == Head(list)
             pos == NewPoint(h.points, a.pos)
             hs == NewPoints([points |-> pos.points, refs |-> <<>>], a.holes)
             panel == Panel(a.name, a.width, a.depth, a.thickness, pos.ref,
                            hs.refs, a.material)
         IN  Construct([points |-> hs.points,
                        objs |-> Append(h.objs, panel),
                        out |-> Append(h.out, Len(h.objs) + 1)], Tail(list))

\* The viewer program has not run.
NoButtons == [assembled_visible |-> <<>>, exploded_visible |-> <<>>]

NoViewer ==
    /\ assembled_panels = <<>>
    /\ exploded_meshes = <<>>
    /\ fig_data = <<>>
    /\ buttons = NoButtons
    /\ concept_name = ""
    /\ viewer_stage = "none"

(***************************************************************************)
(* Initial state: BenchDrawing.__init__ and a constructed panel list       *)
(***************************************************************************)
Init ==
    \E list \in PanelLists :
        LET h == Construct([points |-> <<>>, objs |-> <<>>, out |-> <<>>], list)
        IN  /\ points = h.points
            /\ objs = h.objs
            /\ panels = h.out
            /\ exploded_panels = <<>>
            /\ elements = <<>>
            /\ defs = add_arrow_markers(<<>>)
            /\ y = 50
            /\ stage = 0
            /\ error = "none"
            /\ call = [op |-> "__init__", args |-> <<>>, base |-> 0]
            /\ bbox = NoBox
            /\ corners = <<>>
            /\ mesh = [vertices |-> <<>>, i |-> <<>>, j |-> <<>>, k |-> <<>>]
            /\ ret = 0
            /\ svg = <<>>
            /\ NoViewer

Called(op, args) == [op |-> op, args |-> args, base |-> Len(elements)]

(***************************************************************************)
(* The generation run (lines 657-661) calls the draw_* methods in this     *)
(* order: stage k follows stage k-1.  Each method may also be called alone *)
(* on a new drawing (stage 0); stage 6 ends the run.                       *)
(***************************************************************************)
After(k) == IF stage = k - 1 THEN k ELSE 6

DrawTitleBlock ==
    /\ stage < 1 /\ error = "none"
    /\ elements' = draw_title_block(elements, y)
    /\ y' = y + 50
    /\ stage' = 1
    /\ call' = Called("draw_title_block", <<y>>)
    /\ UNCHANGED <<viewer_vars, svg, points, objs, panels, exploded_panels, defs, error, bbox,
                   corners, mesh, ret>>

\* min() of an empty sequence raises ValueError (line 262), after the
\* section title was added.
DrawOrthographicViews ==
    /\ stage \in {0, 1} /\ error = "none"
    /\ \E scale \in Scales :
        /\ call' = Called("draw_orthographic_views", <<y, scale>>)
        /\ IF panels = <<>>
           THEN /\ elements' = text(elements, P2(50, y), "ORTHOGRAPHIC VIEWS")
                /\ error' = "ValueError"
                /\ stage' = 6
                /\ UNCHANGED <<y, bbox>>
           ELSE /\ bbox' = bounding_box(points, objs, panels)
                /\ elements' = draw_orthographic_views(elements, points, objs, panels,
                                                       bbox', y, scale)
                /\ y' = y + 25 + 20 + 270
                /\ stage' = After(2)
                /\ UNCHANGED error
    /\ UNCHANGED <<viewer_vars, svg, points, objs, panels, exploded_panels, defs, corners, mesh, ret>>

DrawIsometricView ==
    /\ stage \in {0, 2} /\ error = "none"
    /\ \E scale \in OtherScales :
        /\ call' = Called("draw_isometric_view", <<y, scale>>)
        /\ elements' = draw_isometric_view(elements, points, objs, panels, y, scale)
    /\ y' = y + 25 + 320
    /\ stage' = After(3)
    /\ UNCHANGED <<viewer_vars, svg, points, objs, panels, exploded_panels, defs, error, bbox,
                   corners, mesh, ret>>

DrawExplodedView ==
    /\ stage \in {0, 3} /\ error = "none"
    /\ \E scale \in OtherScales, explode_distance \in Distances :
        LET h == explode([points |-> points, objs |-> objs, out |-> <<>>], panels, 0,
                         explode_distance)
        IN  /\ call' = Called("draw_exploded_view", <<y, scale, explode_distance>>)
            /\ points' = h.points
            /\ objs' = h.objs
            /\ exploded_panels' = h.out
            /\ elements' = draw_exploded_view(elements, points', objs', exploded_panels',
                                              y, scale)
    /\ y' = y + 25 + 320
    /\ stage' = After(4)
    /\ UNCHANGED <<viewer_vars, svg, panels, defs, error, bbox, corners, mesh, ret>>

DrawFlatPatterns ==
    /\ stage \in {0, 4} /\ error = "none"
    /\ \E scale \in FlatScales :
        LET r == draw_flat_patterns(elements, points, objs, panels, y, scale)
        IN  /\ call' = Called("draw_flat_patterns", <<y, scale>>)
            /\ elements' = r.elements
            /\ y' = r.ret
    /\ stage' = After(5)
    /\ UNCHANGED <<viewer_vars, svg, points, objs, panels, exploded_panels, defs, error, bbox,
                   corners, mesh, ret>>

\* save, as __main__ calls it after the five sections (lines 663 and 676);
\* svg is the text written to the file.
Save ==
    /\ stage = 5 /\ error = "none"
    /\ svg' = to_svg(defs, elements)
    /\ call' = Called("save", <<>>)
    /\ stage' = 6
    /\ UNCHANGED <<viewer_vars, points, objs, panels, exploded_panels, elements, defs, y,
                   error, bbox, corners, mesh, ret>>

(***************************************************************************)
(* Single calls of the geometry functions, on the constructed panels and   *)
(* on the drawing before its sections are drawn                            *)
(***************************************************************************)
GetCorners ==
    /\ stage = 0 /\ error = "none"
    /\ \E n \in DOMAIN panels :
        /\ call' = Called("get_corners", <<n>>)
        /\ corners' = get_corners(points, objs[panels[n]])
    /\ stage' = 6
    /\ UNCHANGED <<viewer_vars, svg, points, objs, panels, exploded_panels, elements, defs, y, error,
                   bbox, mesh, ret>>

\* The viewer's callers pass the anchor and the dimensions of a panel.
CreateBoxMesh ==
    /\ stage = 0 /\ error = "none"
    /\ \E n \in DOMAIN panels :
        LET panel == objs[panels[n]]
            pos == points[panel.position]
        IN  /\ call' = Called("create_box_mesh", <<n>>)
            /\ mesh' = create_box_mesh(pos.x, pos.y, pos.z, panel.width, panel.depth,
                                       panel.thickness)
    /\ stage' = 6
    /\ UNCHANGED <<viewer_vars, svg, points, objs, panels, exploded_panels, elements, defs, y, error,
                   bbox, corners, ret>>

Translate ==
    /\ stage = 0 /\ error = "none"
    /\ \E n \in DOMAIN panels, d \in Deltas :
        LET r == translate(points, objs[panels[n]].position, d[1], d[2], d[3])
        IN  /\ call' = Called("translate", <<objs[panels[n]].position, d[1], d[2], d[3]>>)
            /\ points' = r.points
            /\ ret' = r.ref
    /\ stage' = 6
    /\ UNCHANGED <<viewer_vars, svg, objs, panels, exploded_panels, elements, defs, y, error, bbox,
                   corners, mesh>>

RotateY ==
    /\ stage = 0 /\ error = "none"
    /\ \E n \in DOMAIN panels, a \in Angles :
        LET r == rotate_y(points, objs[panels[n]].position, a)
        IN  /\ call' = Called("rotate_y", <<objs[panels[n]].position, a.cos, a.sin>>)
            /\ points' = r.points
            /\ ret' = r.ref
    /\ stage' = 6
    /\ UNCHANGED <<viewer_vars, svg, objs, panels, exploded_panels, elements, defs, y, error, bbox,
                   corners, mesh>>

\* rotate_y(-theta) on the point rotate_y(theta) returned: math.cos is
\* even and math.sin is odd, so the pair is the cosine and the negated sine.
RotateYBack ==
    /\ call.op = "rotate_y" /\ error = "none"
    /\ LET r == rotate_y(points, ret, [cos |-> call.args[2], sin |-> -call.args[3]])
       IN  /\ call' = Called("rotate_y_back",
                             <<ret, call.args[2], -call.args[3], call.args[1]>>)
           /\ points' = r.points
           /\ ret' = r.ref
    /\ UNCHANGED <<viewer_vars, svg, objs, panels, exploded_panels, elements, defs, y, error,
                   bbox, corners, mesh, stage>>

RotateX ==
    /\ stage = 0 /\ error = "none"
    /\ \E n \in DOMAIN panels, a \in Angles :
        LET r == rotate_x(points, objs[panels[n]].position, a)
        IN  /\ call' = Called("rotate_x", <<objs[panels[n]].position, a.cos, a.sin>>)
            /\ points' = r.points
            /\ ret' = r.ref
    /\ stage' = 6
    /\ UNCHANGED <<viewer_vars, svg, objs, panels, exploded_panels, elements, defs, y, error, bbox,
                   corners, mesh>>

\* dimension_line between two points on a line parallel to an axis, or twice
\* the same point.
DimensionLine ==
    /\ stage < 2 /\ error = "none"
    /\ \E p \in DimPoints, q \in DimPoints, offset \in DimOffsets :
        /\ p[1] = q[1] \/ p[2] = q[2]
        /\ call' = Called("dimension_line", <<p[1], p[2], q[1], q[2], offset>>)
        /\ elements' = dimension_line(elements, p[1], p[2], q[1], q[2], "label", offset)
    /\ stage' = 6
    /\ UNCHANGED <<viewer_vars, svg, points, objs, panels, exploded_panels, defs, y, error, bbox,
                   corners, mesh, ret>>

Next ==
    \/ DrawTitleBlock
    \/ DrawOrthographicViews
    \/ DrawIsometricView
    \/ DrawExplodedView
    \/ DrawFlatPatterns
    \/ Save
    \/ GetCorners
    \/ CreateBoxMesh
    \/ Translate
    \/ RotateY
    \/ RotateYBack
    \/ RotateX
    \/ DimensionLine

Spec == Init /\ [][Next]_vars

(***************************************************************************)
(* The 3D viewer (bench_3d_viewer.py).  Its coordinates are in units of    *)
(* 1/40 inch, so that 0.1, 0.125 and 0.25 inch are whole numbers.          *)
(***************************************************************************)
\* The dict create_box_mesh returns (lines 46-55), with the name its caller
\* sets; x, y and z are the columns of vertices.
MeshDict(m, color, name) ==
    [x |-> [n \in 1..8 |-> m.vertices[n][1]],
     y |-> [n \in 1..8 |-> m.vertices[n][2]],
     z |-> [n \in 1..8 |-> m.vertices[n][3]],
     i |-> m.i, j |-> m.j, k |-> m.k,
     color |-> color, vertices |-> m.vertices, name |-> name]

create_concept_4_assembled ==
    << MeshDict(create_box_mesh(0, 0, 640, 2400, 440, 5), "white", "Seat Panel"),
       MeshDict(create_box_mesh(0, 0, 0, 440, 640, 10), "white", "Left Leg"),
       MeshDict(create_box_mesh(1960, 0, 0, 440, 640, 10), "white", "Right Leg") >>

\* The left leg with width and depth exchanged.
create_concept_4_exploded_turned ==
    << MeshDict(create_box_mesh(0, 0, FAdd(640, 320), 2400, 440, 5), "#d4d4d4", "Seat Panel"),
       MeshDict(create_box_mesh(-320, 0, 0, 640, 440, 10), "#a0a0a0", "Left Leg"),
       MeshDict(create_box_mesh(FAdd(1960, 320), 0, 0, 440, 640, 10), "white", "Right Leg") >>

\* explode_offset = 8.0 is 320.
create_concept_4_exploded ==
    << MeshDict(create_box_mesh(0, 0, FAdd(640, 320), 2400, 440, 5), "#d4d4d4", "Seat Panel"),
       MeshDict(create_box_mesh(-320, 0, 0, 440, 640, 10), "#a0a0a0", "Left Leg"),
       MeshDict(create_box_mesh(FAdd(1960, 320), 0, 0, 440, 640, 10), "white", "Right Leg") >>

\* f'Module {i+1} ...'
ModuleName(i, part) == "Module " \o ToString(i + 1) \o " " \o part

\* One pass of the loop of lines 107-133; x_offset = i * 21.0.
assembled_module(i) ==
    LET x_offset == FMul(i, 840)
    IN  << MeshDict(create_box_mesh(x_offset, 0, 680, 840, 480, 4), "white",
                    ModuleName(i, "Seat")),
           MeshDict(create_box_mesh(x_offset, 0, 120, 120, 480, 560), "white",
                    ModuleName(i, "Left Wall")),
           MeshDict(create_box_mesh(FAdd(x_offset, 720), 0, 120, 120, 480, 560), "white",
                    ModuleName(i, "Right Wall")),
           MeshDict(create_box_mesh(x_offset, 0, 0, 120, 480, 120), "white",
                    ModuleName(i, "Left Foot")),
           MeshDict(create_box_mesh(FAdd(x_offset, 720), 0, 0, 120, 480, 120), "white",
                    ModuleName(i, "Right Foot")) >>

create_concept_2_assembled == assembled_module(0) \o assembled_module(1) \o assembled_module(2)

\* One pass of the loop of lines 143-169; spacing = 10.0 is 400.
exploded_module(i) ==
    LET spacing == 400
        x_offset == FMul(i, FAdd(840, spacing))
        half == FDiv(spacing, 2)
    IN  << MeshDict(create_box_mesh(x_offset, -spacing, FAdd(680, spacing), 840, 480, 4),
                    "white", ModuleName(i, "Seat")),
           MeshDict(create_box_mesh(FSub(x_offset, half), 0, 120, 120, 480, 560),
                    "white", ModuleName(i, "Left Wall")),
           MeshDict(create_box_mesh(FAdd(FAdd(x_offset, 720), half), 0, 120, 120, 480, 560),
                    "white", ModuleName(i, "Right Wall")),
           MeshDict(create_box_mesh(FSub(x_offset, half), 0, -half, 120, 480, 120),
                    "white", ModuleName(i, "Left Foot")),
           MeshDict(create_box_mesh(FAdd(FAdd(x_offset, 720), half), 0, -half, 120, 480, 120),
                    "white", ModuleName(i, "Right Foot")) >>

create_concept_2_exploded == exploded_module(0) \o exploded_module(1) \o exploded_module(2)

\* One trace of fig.data.  A coordinate is x[n] / den: a mesh has den = 1,
\* and a connection line keeps np.mean as the sum of the rows over den = 8.
Trace(type, x, y0, z, den, i, j, k, color, name, visible) ==
    [type |-> type, x |-> x, y |-> y0, z |-> z, den |-> den, i |-> i, j |-> j, k |-> k,
     color |-> color, name |-> name, visible |-> visible]

\* Lines 198-214 and 217-233: one Mesh3d trace per panel.
RECURSIVE mesh_traces(_, _, _, _)
mesh_traces(data, ps, suffix, visible) ==
    IF ps = <<>> THEN data
    ELSE mesh_traces(Append(data, Trace("Mesh3d", Head(ps).x, Head(ps).y, Head(ps).z, 1,
                                        Head(ps).i, Head(ps).j, Head(ps).k,
                                        Head(ps).color, Head(ps).name \o suffix, visible)),
                     Tail(ps), suffix, visible)

\* The sum of column c of an array's rows, from row n on.
RECURSIVE ColumnSum(_, _, _)
ColumnSum(vertices, c, n) ==
    IF n > Len(vertices) THEN 0 ELSE vertices[n][c] + ColumnSum(vertices, c, n + 1)

\* np.mean(vertices, axis=0), as the numerators over Len(vertices).
mean(vertices) == [c \in 1..3 |-> ColumnSum(vertices, c, 1)]

\* Lines 238-251: one hidden Scatter3d trace per connection (indices from 0).
RECURSIVE connection_traces(_, _, _)
connection_traces(data, ps, connections) ==
    IF connections = <<>> THEN data
    ELSE LET p1_center == mean(ps[Head(connections)[1] + 1].vertices)
             p2_center == mean(ps[Head(connections)[2] + 1].vertices)
         IN  connection_traces(
                 Append(data, Trace("Scatter3d", <<p1_center[1], p2_center[1]>>,
                                    <<p1_center[2], p2_center[2]>>,
                                    <<p1_center[3], p2_center[3]>>, 8,
                                    <<>>, <<>>, <<>>, "black", "", FALSE)),
                 ps, Tail(connections))

\* [flag] * n
Repeat(flag, n) == [t \in 1..n |-> flag]

\* fig.data with lines for every exploded list of at least 3 panels.
viewer_traces_three_or_more(assembled, exploded) ==
    LET d1 == mesh_traces(<<>>, assembled, "", TRUE)
        d2 == mesh_traces(d1, exploded, " (Exploded)", FALSE)
    IN  IF Len(exploded) >= 3
        THEN connection_traces(d2, exploded, << <<0, 1>>, <<0, 2>> >>)
        ELSE d2

\* Lines 195-251: fig.data.
viewer_traces(assembled, exploded) ==
    LET d1 == mesh_traces(<<>>, assembled, "", TRUE)
        d2 == mesh_traces(d1, exploded, " (Exploded)", FALSE)
    IN  IF Len(exploded) = 3
        THEN connection_traces(d2, exploded, << <<0, 1>>, <<0, 2>> >>)
        ELSE d2

\* Lines 254-262: the two visibility vectors.
assembled_visible(n_assembled, n_exploded, n_lines) ==
    Repeat(TRUE, n_assembled) \o Repeat(FALSE, n_exploded) \o Repeat(FALSE, n_lines)

\* The exploded vector with the lines left hidden.
exploded_visible_meshes_only(n_assembled, n_exploded, n_lines) ==
    Repeat(FALSE, n_assembled) \o Repeat(TRUE, n_exploded) \o Repeat(FALSE, n_lines)

exploded_visible(n_assembled, n_exploded, n_lines) ==
    Repeat(FALSE, n_assembled) \o Repeat(TRUE, n_exploded) \o Repeat(TRUE, n_lines)

\* A button's method "update" with args [{"visible": vector}] (lines 292-301):
\* trace t takes vector[t] as its visible flag.
update(data, visible) == [t \in DOMAIN data |-> [data[t] EXCEPT !.visible = visible[t]]]

\* The lists a concept's two creators return.
ConceptNames == {"Concept 4: Thin Slab Legs", "Concept 2: Interlocking U-Modules"}
AssembledOf(c) ==
    IF c = "Concept 4: Thin Slab Legs" THEN create_concept_4_assembled
    ELSE create_concept_2_assembled
ExplodedOf(c) ==
    IF c = "Concept 4: Thin Slab Legs" THEN create_concept_4_exploded
    ELSE create_concept_2_exploded

Prefix(list, n) == SubSeq(list, 1, IF n < Len(list) THEN n ELSE Len(list))

\* The drawing program does not run with the viewer.
NoDrawing ==
    /\ points = <<>> /\ objs = <<>> /\ panels = <<>> /\ exploded_panels = <<>>
    /\ elements = <<>> /\ defs = <<>> /\ y = 0 /\ stage = 6 /\ error = "none"
    /\ call = [op |-> "none", args |-> <<>>, base |-> 0]
    /\ bbox = NoBox /\ corners = <<>>
    /\ mesh = [vertices |-> <<>>, i |-> <<>>, j |-> <<>>, k |-> <<>>]
    /\ ret = 0 /\ svg = <<>>

ViewerInit ==
    /\ NoDrawing
    /\ assembled_panels = <<>>
    /\ exploded_meshes = <<>>
    /\ fig_data = <<>>
    /\ buttons = NoButtons
    /\ concept_name = ""
    /\ viewer_stage = "start"

\* Lines 360-361 and 372-373: the lists of one concept.
CreateConcept ==
    /\ viewer_stage = "start"
    /\ \E c \in ConceptNames :
        /\ concept_name' = c
        /\ assembled_panels' = AssembledOf(c)
        /\ exploded_meshes' = ExplodedOf(c)
    /\ viewer_stage' = "lists"
    /\ UNCHANGED <<drawing_vars, fig_data, buttons>>

\* Other lists a caller may hand to create_interactive_viewer: the first
\* panels of a concept's lists, of independent lengths.
CreateLists ==
    /\ viewer_stage = "start"
    /\ \E c \in ConceptNames, a \in 0..MaxMeshes, e \in 0..MaxMeshes :
        /\ assembled_panels' = Prefix(AssembledOf(c), a)
        /\ exploded_meshes' = Prefix(ExplodedOf(c), e)
    /\ concept_name' = ""
    /\ viewer_stage' = "lists"
    /\ UNCHANGED <<drawing_vars, fig_data, buttons>>

CreateInteractiveViewer ==
    /\ viewer_stage = "lists"
    /\ fig_data' = viewer_traces(assembled_panels, exploded_meshes)
    /\ LET n_assembled == Len(assembled_panels)
           n_exploded == Len(exploded_meshes)
           n_lines == Len(fig_data') - n_assembled - n_exploded
       IN  buttons' = [assembled_visible |->
                           assembled_visible(n_assembled, n_exploded, n_lines),
                       exploded_visible |->
                           exploded_visible(n_assembled, n_exploded, n_lines)]
    /\ viewer_stage' = "viewer"
    /\ UNCHANGED <<drawing_vars, assembled_panels, exploded_meshes, concept_name>>

PressAssembled ==
    /\ viewer_stage = "viewer"
    /\ fig_data' = update(fig_data, buttons.assembled_visible)
    /\ UNCHANGED <<drawing_vars, assembled_panels, exploded_meshes, buttons, concept_name,
                   viewer_stage>>

PressExploded ==
    /\ viewer_stage = "viewer"
    /\ fig_data' = update(fig_data, buttons.exploded_visible)
    /\ UNCHANGED <<drawing_vars, assembled_panels, exploded_meshes, buttons, concept_name,
                   viewer_stage>>

ViewerNext ==
    \/ CreateConcept
    \/ CreateLists
    \/ CreateInteractiveViewer
    \/ PressAssembled
    \/ PressExploded

ViewerSpec == ViewerInit /\ [][ViewerNext]_vars

\* Both programs: a run of the drawing program or a run of the viewer.
BothInit == Init \/ ViewerInit
BothNext == Next \/ ViewerNext
BothSpec == BothInit /\ [][BothNext]_vars

(***************************************************************************)
(* Properties                                                              *)
(***************************************************************************)
\* The panel at list index n (from 1) and its anchor.
PanelAt(n) == objs[panels[n]]
PosOf(panel) == points[panel.position]

\* C1: get_corners returns 8 points, in the order (x,y,z), (x+w,y,z),
\* (x+w,y+d,z), (x,y+d,z), then the same four at z+t; for a panel at
\* (0,0,0), corner 6 is (w,d,t).
CornersInFixedOrder ==
    call.op = "get_corners" =>
        LET panel == PanelAt(call.args[1])
            p == PosOf(panel)
            xw == FAdd(p.x, panel.width)
            yd == FAdd(p.y, panel.depth)
            zt == FAdd(p.z, panel.thickness)
        IN  /\ Len(corners) = 8
            /\ corners[1] = Pt(p.x, p.y, p.z) /\ corners[2] = Pt(xw, p.y, p.z)
            /\ corners[3] = Pt(xw, yd, p.z)   /\ corners[4] = Pt(p.x, yd, p.z)
            /\ corners[5] = Pt(p.x, p.y, zt)  /\ corners[6] = Pt(xw, p.y, zt)
            /\ corners[7] = Pt(xw, yd, zt)    /\ corners[8] = Pt(p.x, yd, zt)
            /\ (p = Pt(0, 0, 0) =>
                    corners[7] = Pt(panel.width, panel.depth, panel.thickness))

\* The corners of the 10 x 5 x 2 panel at the origin were computed.
CornersAtOrigin ==
    /\ call.op = "get_corners"
    /\ PosOf(PanelAt(call.args[1])) = Pt(0, 0, 0)
    /\ corners[7] = Pt(10, 5, 2)
    /\ corners[2] # corners[4]

\* C2: draw_exploded_view derives a list of the same length in which panel
\* i (from 0) of n is shifted along Z by explode_distance * (i - n div 2),
\* and has the x, y, name, dimensions, holes and material of input panel i.
ExplodedShiftedAlongZOnly ==
    call.op = "draw_exploded_view" =>
        /\ Len(exploded_panels) = Len(panels)
        /\ \A n \in DOMAIN panels :
            LET a == PanelAt(n)
                b == objs[exploded_panels[n]]
                offset == FMul(call.args[3], (n - 1) - (Len(panels) \div 2))
            IN  /\ PosOf(b).x = PosOf(a).x
                /\ PosOf(b).y = PosOf(a).y
                /\ PosOf(b).z = FAdd(PosOf(a).z, offset)
                /\ b.name = a.name /\ b.width = a.width /\ b.depth = a.depth
                /\ b.thickness = a.thickness /\ b.material = a.material
                /\ b.holes = a.holes

\* Three panels were exploded: the first moved down, the last moved up.
ThreePanelsExploded ==
    /\ call.op = "draw_exploded_view"
    /\ Len(exploded_panels) = 3
    /\ PosOf(objs[exploded_panels[1]]).z < PosOf(PanelAt(1)).z
    /\ PosOf(objs[exploded_panels[2]]).z = PosOf(PanelAt(2)).z
    /\ PosOf(objs[exploded_panels[3]]).z > PosOf(PanelAt(3)).z

\* C3: draw_exploded_view leaves the input list and every existing Panel
\* and Point3D as they were; rotate_y, rotate_x and translate leave every
\* existing point as it was and return a new instance.
OriginalsNeverMutated ==
    [][ /\ call'.op \in {"draw_exploded_view", "translate", "rotate_y", "rotate_x"} =>
            /\ panels' = panels
            /\ Len(points') >= Len(points) /\ Len(objs') >= Len(objs)
            /\ \A r \in DOMAIN points : points'[r] = points[r]
            /\ \A o \in DOMAIN objs : objs'[o] = objs[o]
        /\ call'.op \in {"translate", "rotate_y", "rotate_x"} =>
            /\ ret' \notin DOMAIN points
            /\ ret' \in DOMAIN points' ]_vars

\* A translate call returned a point that differs from its receiver.
TranslatedToNewPoint ==
    /\ call.op = "translate"
    /\ ret # call.args[1]
    /\ points[ret] # points[call.args[1]]
    /\ points[ret] = Pt(FAdd(points[call.args[1]].x, call.args[2]),
                        FAdd(points[call.args[1]].y, call.args[3]),
                        FAdd(points[call.args[1]].z, call.args[4]))

\* The position that translating exploded panel n back by the negated
\* offset of line 416 gives.
Unexploded(n) ==
    LET offset == FMul(call.args[3], (n - 1) - (Len(panels) \div 2))
        back == translate(points, objs[exploded_panels[n]].position, 0, 0, -offset)
    IN  back.points[back.ref]

\* C4 (as stated): translating every exploded position back by the negated
\* offset gives exactly the original position.
UnexplodeRestoresExactly ==
    call.op = "draw_exploded_view" =>
        \A n \in DOMAIN panels : Unexploded(n) = PosOf(PanelAt(n))

\* C4 (amended): translating back restores x and y exactly, and restores z
\* exactly whenever position.z + offset was computed without rounding.
UnexplodeRestoresWhenExact ==
    call.op = "draw_exploded_view" =>
        \A n \in DOMAIN panels :
            LET a == PosOf(PanelAt(n))
                offset == FMul(call.args[3], (n - 1) - (Len(panels) \div 2))
            IN  /\ Unexploded(n).x = a.x
                /\ Unexploded(n).y = a.y
                /\ Representable(a.z + offset) => Unexploded(n).z = a.z

\* Three panels were exploded by the default distance, moved, and every one
\* comes back to where it was.
UnexplodedThreePanels ==
    /\ call.op = "draw_exploded_view"
    /\ call.args[3] = 5
    /\ Len(exploded_panels) = 3
    /\ PosOf(objs[exploded_panels[1]]) # PosOf(PanelAt(1))
    /\ \A n \in DOMAIN panels : Unexploded(n) = PosOf(PanelAt(n))

\* draw_orthographic_views returned: its arguments and the places of its
\* elements in the list.
OrthoDrawn == call.op = "draw_orthographic_views" /\ error = "none"
OrthoScale == call.args[2]
OrthoY == call.args[1] + 25 + 20
FrontAt == CHOOSE k \in call.base + 1 .. Len(elements) : elements[k].text = "Front View"
SideAt == CHOOSE k \in call.base + 1 .. Len(elements) : elements[k].text = "Right Side View"
TopRange == call.base + 3 .. FrontAt - 1
FrontRange == FrontAt + 1 .. SideAt - 1
SideRange == SideAt + 1 .. Len(elements)
IsPolygon(e) == e.kind = "polygon"
IsCircle(e) == e.kind = "circle"
PolygonPoints(range) ==
    UNION { {elements[k].pts[m] : m \in DOMAIN elements[k].pts} :
            k \in {j \in range : IsPolygon(elements[j])} }
CornerOf(n, k) == get_corners(points, PanelAt(n))[k]
CornerIds == {<<n, k>> : n \in DOMAIN panels, k \in 1..8}

\* C5: the bounding box of draw_orthographic_views is the elementwise
\* minimum and maximum over the 8 corners of all panels; the one box serves
\* the three views, so each view's least coordinates lie on its origin; the
\* panels (0,0,0)-(10,5,2) and (20,0,0)-(30,5,2) give the X range [0,30].
BoundingBoxIsMinMax ==
    OrthoDrawn =>
        /\ bbox.min_x \in {CornerOf(c[1], c[2]).x : c \in CornerIds}
        /\ bbox.max_x \in {CornerOf(c[1], c[2]).x : c \in CornerIds}
        /\ bbox.min_y \in {CornerOf(c[1], c[2]).y : c \in CornerIds}
        /\ bbox.max_y \in {CornerOf(c[1], c[2]).y : c \in CornerIds}
        /\ bbox.min_z \in {CornerOf(c[1], c[2]).z : c \in CornerIds}
        /\ bbox.max_z \in {CornerOf(c[1], c[2]).z : c \in CornerIds}
        /\ \A c \in CornerIds :
            /\ bbox.min_x <= CornerOf(c[1], c[2]).x /\ CornerOf(c[1], c[2]).x <= bbox.max_x
            /\ bbox.min_y <= CornerOf(c[1], c[2]).y /\ CornerOf(c[1], c[2]).y <= bbox.max_y
            /\ bbox.min_z <= CornerOf(c[1], c[2]).z /\ CornerOf(c[1], c[2]).z <= bbox.max_z
        /\ \A p \in PolygonPoints(TopRange) : p.sx >= 100 /\ p.sy >= OrthoY
        /\ \E p \in PolygonPoints(TopRange) : p.sx = 100
        /\ \E p \in PolygonPoints(TopRange) : p.sy = OrthoY
        /\ \A p \in PolygonPoints(FrontRange) : p.sx >= 450 /\ p.sy <= OrthoY + 250
        /\ \E p \in PolygonPoints(FrontRange) : p.sx = 450
        /\ \E p \in PolygonPoints(FrontRange) : p.sy = OrthoY + 250
        /\ \A p \in PolygonPoints(SideRange) : p.sx >= 800 /\ p.sy <= OrthoY + 250
        /\ \E p \in PolygonPoints(SideRange) : p.sx = 800
        /\ \E p \in PolygonPoints(SideRange) : p.sy = OrthoY + 250
        /\ ( /\ Len(panels) = 2
             /\ {PanelAt(n).name : n \in DOMAIN panels} = {"Left Leg", "Right Leg"} )
           => bbox.min_x = 0 /\ bbox.max_x = 30

\* The two legs were drawn, the box spans both, and the second panel alone
\* does not reach the box's minimum.
BoxOverTwoLegs ==
    /\ OrthoDrawn
    /\ Len(panels) = 2
    /\ PanelAt(1).name = "Right Leg" /\ PanelAt(2).name = "Left Leg"
    /\ bbox.min_x = 0 /\ bbox.max_x = 30
    /\ CornerOf(1, 1).x = 20

\* The polygons of one view, in list order: one per panel.
Polygons(lo, hi) == SelectSeq(SubSeq(elements, lo, hi), IsPolygon)
TopPolygon(n) == Polygons(call.base + 3, FrontAt - 1)[n].pts
FrontPolygon(n) == Polygons(FrontAt + 1, SideAt - 1)[n].pts
SidePolygon(n) == Polygons(SideAt + 1, Len(elements))[n].pts

\* origin + (v - min) * scale and baseline - (v - min) * scale, in floats.
Added(origin, v, min, scale) == FAdd(origin, FMul(FSub(v, min), scale))
Subtracted(baseline, v, min, scale) == FSub(baseline, FMul(FSub(v, min), scale))

\* C6 (as stated): in every view, each of the four chosen corners goes to
\* the view's pixel origin plus (coordinate - minimum) * scale, on both
\* screen axes, for some pixel origin of the view (its x is the view's
\* x_start; any y on the sheet will do).
EveryViewAddsPixelOrigin ==
    OrthoDrawn =>
        /\ \E ox \in {100}, oy \in 0..1500 : \A n \in DOMAIN panels :
              TopPolygon(n) =
                [m \in 1..4 |->
                    LET c == CornerOf(n, <<1, 2, 3, 4>>[m])
                    IN  P2(Added(ox, c.x, bbox.min_x, OrthoScale),
                           Added(oy, c.y, bbox.min_y, OrthoScale))]
        /\ \E ox \in {450}, oy \in 0..1500 : \A n \in DOMAIN panels :
              FrontPolygon(n) =
                [m \in 1..4 |->
                    LET c == CornerOf(n, <<1, 2, 6, 5>>[m])
                    IN  P2(Added(ox, c.x, bbox.min_x, OrthoScale),
                           Added(oy, c.z, bbox.min_z, OrthoScale))]
        /\ \E ox \in {800}, oy \in 0..1500 : \A n \in DOMAIN panels :
              SidePolygon(n) =
                [m \in 1..4 |->
                    LET c == CornerOf(n, <<1, 4, 8, 5>>[m])
                    IN  P2(Added(ox, c.y, bbox.min_y, OrthoScale),
                           Added(oy, c.z, bbox.min_z, OrthoScale))]

\* C6 (amended): the top view puts corners 0,1,2,3 at (100, y) plus
\* (coordinate - minimum) * scale on X and Y; the front view puts corners
\* 0,1,5,4, and the side view corners 0,3,7,4, at their origin plus the
\* scaled X (front) or Y (side) horizontally, and at the baseline y + 250
\* minus the scaled Z vertically.  Where no operation rounds, the top-view
\* polygon is a rectangle width*scale by depth*scale; 60 x 11 at scale 2
\* gives 120 by 22.
ViewsProjectWithZUpward ==
    OrthoDrawn =>
        \A n \in DOMAIN panels :
            /\ TopPolygon(n) =
                [m \in 1..4 |->
                    LET c == CornerOf(n, <<1, 2, 3, 4>>[m])
                    IN  P2(Added(100, c.x, bbox.min_x, OrthoScale),
                           Added(OrthoY, c.y, bbox.min_y, OrthoScale))]
            /\ FrontPolygon(n) =
                [m \in 1..4 |->
                    LET c == CornerOf(n, <<1, 2, 6, 5>>[m])
                    IN  P2(Added(450, c.x, bbox.min_x, OrthoScale),
                           Subtracted(OrthoY + 250, c.z, bbox.min_z, OrthoScale))]
            /\ SidePolygon(n) =
                [m \in 1..4 |->
                    LET c == CornerOf(n, <<1, 4, 8, 5>>[m])
                    IN  P2(Added(800, c.y, bbox.min_y, OrthoScale),
                           Subtracted(OrthoY + 250, c.z, bbox.min_z, OrthoScale))]
            /\ LET p == PosOf(PanelAt(n))
                   left == 100 + (p.x - bbox.min_x) * OrthoScale
                   top == OrthoY + (p.y - bbox.min_y) * OrthoScale
                   right == 100 + (p.x + PanelAt(n).width - bbox.min_x) * OrthoScale
                   bottom == OrthoY + (p.y + PanelAt(n).depth - bbox.min_y) * OrthoScale
               IN  ( /\ TopPolygon(n)[1] = P2(left, top)
                     /\ TopPolygon(n)[3] = P2(right, bottom) )
                   => /\ TopPolygon(n)[2] = P2(right, top)
                      /\ TopPolygon(n)[4] = P2(left, bottom)
                      /\ right - left = PanelAt(n).width * OrthoScale
                      /\ bottom - top = PanelAt(n).depth * OrthoScale
            /\ ( PanelAt(n).width = 60 /\ PanelAt(n).depth = 11 /\ OrthoScale = 2 )
                => /\ TopPolygon(n)[3].sx - TopPolygon(n)[1].sx = 120
                   /\ TopPolygon(n)[3].sy - TopPolygon(n)[1].sy = 22

\* The 60 x 11 panel was drawn at scale 2 above a leg: 120 by 22 in the top
\* view, and in the front view its upper edge is higher on the screen
\* (smaller y) than its lower edge.
SeatDrawnAtScaleTwo ==
    /\ OrthoDrawn
    /\ OrthoScale = 2
    /\ Len(panels) = 2
    /\ PanelAt(1).name = "Seat Panel"
    /\ TopPolygon(1)[3].sx - TopPolygon(1)[1].sx = 120
    /\ FrontPolygon(1)[3].sy < FrontPolygon(1)[1].sy
    /\ FrontPolygon(1)[1].sy < OrthoY + 250

\* The circles drawn in a range of the element list.
Circles(range) == {k \in range : IsCircle(elements[k])}
HoleOf(n, h) ==
    LET hole == points[PanelAt(n).holes[h]]
    IN  Pt(FAdd(PosOf(PanelAt(n)).x, hole.x), FAdd(PosOf(PanelAt(n)).y, hole.y),
           FAdd(PosOf(PanelAt(n)).z, hole.z))

\* C7 (as stated): in the top, the front and the side view, every hole is
\* drawn at the projection of position + hole offset, by the rule of the
\* panel's corners in that view.
HolesDrawnInEveryView ==
    OrthoDrawn =>
        \A n \in DOMAIN panels : \A h \in DOMAIN PanelAt(n).holes :
            LET w == HoleOf(n, h)
            IN  /\ \E k \in Circles(TopRange) :
                      elements[k].pts[1] = P2(Added(100, w.x, bbox.min_x, OrthoScale),
                                              Added(OrthoY, w.y, bbox.min_y, OrthoScale))
                /\ \E k \in Circles(FrontRange) :
                      elements[k].pts[1] =
                          P2(Added(450, w.x, bbox.min_x, OrthoScale),
                             Subtracted(OrthoY + 250, w.z, bbox.min_z, OrthoScale))
                /\ \E k \in Circles(SideRange) :
                      elements[k].pts[1] =
                          P2(Added(800, w.y, bbox.min_y, OrthoScale),
                             Subtracted(OrthoY + 250, w.z, bbox.min_z, OrthoScale))

\* The number of holes of the panels from list index n on.
RECURSIVE HolesFrom(_)
HolesFrom(n) == IF n > Len(panels) THEN 0 ELSE Len(PanelAt(n).holes) + HolesFrom(n + 1)

\* C7 (amended): in the top view every hole of every panel is drawn, once,
\* as a circle at the top-view projection of position + hole offset; the
\* front and the side view draw no holes.
HolesDrawnInTopViewOnly ==
    OrthoDrawn =>
        /\ \A n \in DOMAIN panels : \A h \in DOMAIN PanelAt(n).holes :
            LET w == HoleOf(n, h)
            IN  \E k \in Circles(TopRange) :
                    elements[k].pts[1] = P2(Added(100, w.x, bbox.min_x, OrthoScale),
                                            Added(OrthoY, w.y, bbox.min_y, OrthoScale))
        /\ Cardinality(Circles(TopRange)) = HolesFrom(1)
        /\ Circles(FrontRange) = {}
        /\ Circles(SideRange) = {}

\* A panel away from the origin had its hole drawn in the top view, away
\* from where the bare offset would put it.
HoleDrawnAtWorldPosition ==
    /\ OrthoDrawn
    /\ \E n \in DOMAIN panels :
        /\ PanelAt(n).name = "Right Leg"
        /\ \E k \in Circles(TopRange) :
              elements[k].pts[1] =
                  P2(Added(100, 22, bbox.min_x, OrthoScale), Added(OrthoY, 3, bbox.min_y, OrthoScale))
        /\ \A k \in Circles(TopRange) :
              elements[k].pts[1] #
                  P2(Added(100, 2, bbox.min_x, OrthoScale), Added(OrthoY, 3, bbox.min_y, OrthoScale))

\* The number of elements draw_flat_patterns adds for the panels from list
\* index n on: the outline, a circle and a label per hole, four elements
\* per dimension of non-zero length, and the two text lines.
RECURSIVE FlatElements(_)
FlatElements(n) ==
    IF n > Len(panels) THEN 0
    ELSE 1 + 2 * Len(PanelAt(n).holes)
           + (IF PanelAt(n).width = 0 THEN 0 ELSE 4)
           + (IF PanelAt(n).depth = 0 THEN 0 ELSE 4)
           + 2 + FlatElements(n + 1)

\* C8: dimension_line with coincident endpoints appends nothing, leaves
\* elements and defs as they were and raises nothing; so draw_flat_patterns
\* adds no dimension elements for a width or a depth of 0.
CoincidentEndpointsAppendNothing ==
    [][ /\ ( /\ call'.op = "dimension_line"
             /\ call'.args[1] = call'.args[3]
             /\ call'.args[2] = call'.args[4] )
           => elements' = elements /\ defs' = defs /\ error' = "none"
        /\ call'.op = "draw_flat_patterns"
           => /\ Len(elements') = Len(elements) + 2 + FlatElements(1)
              /\ SubSeq(elements', 1, Len(elements)) = elements
              /\ defs' = defs /\ error' = "none" ]_vars

\* dimension_line was called from (5,5) to (5,5) on a drawing that has its
\* title block, and the element list is as long as before.
CoincidentDimensionRequested ==
    /\ call.op = "dimension_line"
    /\ <<call.args[1], call.args[2]>> = <<5, 5>>
    /\ <<call.args[3], call.args[4]>> = <<5, 5>>
    /\ call.base = 3
    /\ Len(elements) = 3

\* The six faces of the box, as sets of corner indices.
Faces == { {0, 1, 2, 3}, {4, 5, 6, 7}, {0, 1, 5, 4},
           {1, 2, 6, 5}, {2, 3, 7, 6}, {0, 3, 7, 4} }

\* C9: create_box_mesh returns 12 triangles over the 8 corners, two on each
\* of the six faces, as three index arrays of equal length.
MeshHasTwelveTriangles ==
    call.op = "create_box_mesh" =>
        /\ Len(mesh.i) = 12
        /\ Len(mesh.j) = Len(mesh.i) /\ Len(mesh.k) = Len(mesh.i)
        /\ \A t \in DOMAIN mesh.i : {mesh.i[t], mesh.j[t], mesh.k[t]} \subseteq 0..7
        /\ \A f \in Faces :
              Cardinality({t \in DOMAIN mesh.i :
                              {mesh.i[t], mesh.j[t], mesh.k[t]} \subseteq f}) = 2

\* C10: the 8 vertices of create_box_mesh equal, index by index, the 8
\* corners get_corners returns for the same position and dimensions.
MeshVerticesAreCorners ==
    call.op = "create_box_mesh" =>
        /\ Len(mesh.vertices) = 8
        /\ \A k \in 1..8 :
              LET c == get_corners(points, PanelAt(call.args[1]))[k]
              IN  mesh.vertices[k] = <<c.x, c.y, c.z>>

\* The mesh of the 10 x 5 x 2 panel anchored at (20,0,0) was built.
MeshOfRightLeg ==
    /\ call.op = "create_box_mesh"
    /\ PanelAt(call.args[1]).name = "Right Leg"
    /\ mesh.vertices[7] = <<30, 5, 2>>
    /\ mesh.vertices[2] # mesh.vertices[4]

\* The visibility flags of the figure's traces, in trace order.
VisibleFlags(data) == [t \in DOMAIN data |-> data[t].visible]

\* C11: once the figure is built, the visible traces are always one of the
\* two precomputed vectors: the assembled meshes alone, or the exploded
\* meshes and the connection lines alone.  Each vector has one flag per
\* trace, the figure starts in the assembled vector, and a press changes
\* visibility flags only.
ToggleSwapsVisibilityOnly ==
    [][ /\ viewer_stage' = "viewer" =>
            /\ Len(buttons'.assembled_visible) = Len(fig_data')
            /\ Len(buttons'.exploded_visible) = Len(fig_data')
            /\ \A t \in DOMAIN fig_data' :
                /\ buttons'.assembled_visible[t] = (t <= Len(assembled_panels'))
                /\ buttons'.exploded_visible[t] = (t > Len(assembled_panels'))
                /\ fig_data'[t].type =
                      IF t <= Len(assembled_panels') + Len(exploded_meshes')
                      THEN "Mesh3d" ELSE "Scatter3d"
            /\ VisibleFlags(fig_data') \in
                  {buttons'.assembled_visible, buttons'.exploded_visible}
        /\ (viewer_stage = "lists" /\ viewer_stage' = "viewer") =>
            VisibleFlags(fig_data') = buttons'.assembled_visible
        /\ viewer_stage = "viewer" =>
            /\ buttons' = buttons
            /\ Len(fig_data') = Len(fig_data)
            /\ \A t \in DOMAIN fig_data :
                  [fig_data'[t] EXCEPT !.visible = fig_data[t].visible] = fig_data[t] ]_vars

\* Concept 4 was switched to its exploded state: the three assembled meshes
\* are hidden, the three exploded meshes and both lines are shown.
ExplodedStateShown ==
    /\ viewer_stage = "viewer"
    /\ Len(assembled_panels) = 3
    /\ Len(fig_data) = 8
    /\ VisibleFlags(fig_data) =
          <<FALSE, FALSE, FALSE, TRUE, TRUE, TRUE, TRUE, TRUE>>

\* The traces of the figure that are lines.
LineTraces(data) == {t \in DOMAIN data : data[t].type = "Scatter3d"}

\* Eight times coordinate c of the centroid of a mesh's 8 vertices.
CentroidTimes8(m, c) ==
    m.vertices[1][c] + m.vertices[2][c] + m.vertices[3][c] + m.vertices[4][c]
    + m.vertices[5][c] + m.vertices[6][c] + m.vertices[7][c] + m.vertices[8][c]

\* Trace t is the line between the centroids of exploded panels a and b
\* (indices from 0).
LineJoins(data, t, ps, a, b) ==
    /\ data[t].type = "Scatter3d"
    /\ data[t].den = 8
    /\ data[t].x = <<CentroidTimes8(ps[a + 1], 1), CentroidTimes8(ps[b + 1], 1)>>
    /\ data[t].y = <<CentroidTimes8(ps[a + 1], 2), CentroidTimes8(ps[b + 1], 2)>>
    /\ data[t].z = <<CentroidTimes8(ps[a + 1], 3), CentroidTimes8(ps[b + 1], 3)>>

\* C12: create_interactive_viewer emits connection lines only for an
\* exploded list of exactly 3 panels: then exactly two, for the pairs (0,1)
\* and (0,2), both hidden at first; for any other length it emits none.
LinesOnlyForThreePanels ==
    [][ (viewer_stage = "lists" /\ viewer_stage' = "viewer") =>
        LET n == Len(assembled_panels') + Len(exploded_meshes')
        IN  IF Len(exploded_meshes') = 3
            THEN /\ LineTraces(fig_data') = {n + 1, n + 2}
                 /\ LineJoins(fig_data', n + 1, exploded_meshes', 0, 1)
                 /\ LineJoins(fig_data', n + 2, exploded_meshes', 0, 2)
                 /\ ~fig_data'[n + 1].visible
                 /\ ~fig_data'[n + 2].visible
            ELSE LineTraces(fig_data') = {} ]_vars

\* The viewer of a three-panel exploded list was just built: its last two
\* traces are hidden lines.
TwoHiddenLines ==
    /\ viewer_stage = "viewer"
    /\ Len(exploded_meshes) = 3
    /\ Len(fig_data) = Len(assembled_panels) + 5
    /\ LineTraces(fig_data) = {Len(fig_data) - 1, Len(fig_data)}
    /\ ~fig_data[Len(fig_data) - 1].visible
    /\ ~fig_data[Len(fig_data)].visible

\* Corner k (from 1) of exploded panel n (from 1) of the drawing path.
ExplodedCornerAt(n, k) == get_corners(points, objs[exploded_panels[n]])[k]

\* The lines draw_exploded_view added: indices into elements.
ExplodedViewLines ==
    {e \in (call.base + 1)..Len(elements) : elements[e].kind = "line"}

\* Element e is a line between the isometric images of 3D points p and q.
LineBetween(e, p, q) ==
    /\ elements[e].kind = "line"
    /\ elements[e].pts[1].iso = <<p.x, p.y, p.z, call.args[2]>>
    /\ elements[e].pts[2].iso = <<q.x, q.y, q.z, call.args[2]>>

\* Eight times the centroid of the 8 corners of exploded panel n.
ExplodedCentroidTimes8(n) ==
    LET c == get_corners(points, objs[exploded_panels[n]])
    IN  [x |-> c[1].x + c[2].x + c[3].x + c[4].x + c[5].x + c[6].x + c[7].x + c[8].x,
         y |-> c[1].y + c[2].y + c[3].y + c[4].y + c[5].y + c[6].y + c[7].y + c[8].y,
         z |-> c[1].z + c[2].z + c[3].z + c[4].z + c[5].z + c[6].z + c[7].z + c[8].z]

\* The viewer's lines join the centroids of the exploded panels of a pair
\* of the explicit list [(0, 1), (0, 2)].
ViewerLinesJoinCentroids ==
    viewer_stage = "viewer" =>
        \A t \in LineTraces(fig_data) :
            \E pair \in {<<0, 1>>, <<0, 2>>} :
                LineJoins(fig_data, t, exploded_meshes, pair[1], pair[2])

\* C13 (as amended): in the viewer every connection line runs from the
\* centroid of one exploded panel to the centroid of another, the pair taken
\* from the explicit list [(0, 1), (0, 2)]; in the drawing every assembly
\* line of the exploded view runs from corner 6 of exploded panel i to
\* corner 4 of exploded panel i + 1, for each consecutive i in list order.
LinesJoinCentroidsArrowsJoinCorners ==
    /\ ViewerLinesJoinCentroids
    /\ call.op = "draw_exploded_view" =>
        LET n == Len(exploded_panels)
            first == call.base + 1 + 3 * n
        IN  /\ ExplodedViewLines = {first + i : i \in 1..(n - 1)}
            /\ \A i \in 1..(n - 1) :
                  LineBetween(first + i, ExplodedCornerAt(i, 7), ExplodedCornerAt(i + 1, 5))

\* Three panels were exploded and drawn: two dashed assembly lines follow
\* the faces and labels.
TwoAssemblyLinesDrawn ==
    /\ call.op = "draw_exploded_view"
    /\ Len(exploded_panels) = 3
    /\ ExplodedViewLines = {Len(elements) - 1, Len(elements)}
    /\ elements[Len(elements)].dash = "2,2"

\* C13 (as stated): in both output paths every line of the exploded view
\* joins the centroids of two exploded panels.
EveryLineJoinsCentroids ==
    /\ ViewerLinesJoinCentroids
    /\ call.op = "draw_exploded_view" =>
        \A e \in ExplodedViewLines :
            \E a, b \in DOMAIN exploded_panels :
                /\ a # b
                /\ elements[e].pts[1].iso[1] * 8 = ExplodedCentroidTimes8(a).x
                /\ elements[e].pts[1].iso[2] * 8 = ExplodedCentroidTimes8(a).y
                /\ elements[e].pts[1].iso[3] * 8 = ExplodedCentroidTimes8(a).z
                /\ elements[e].pts[2].iso[1] * 8 = ExplodedCentroidTimes8(b).x
                /\ elements[e].pts[2].iso[2] * 8 = ExplodedCentroidTimes8(b).y
                /\ elements[e].pts[2].iso[3] * 8 = ExplodedCentroidTimes8(b).z

\* The width, depth and thickness a mesh was created with, read off its
\* vertices: corner 1 less corner 0 along X, corner 3 less corner 0 along Y,
\* corner 4 less corner 0 along Z.
Extents(m) ==
    <<m.vertices[2][1] - m.vertices[1][1],
      m.vertices[4][2] - m.vertices[1][2],
      m.vertices[5][3] - m.vertices[1][3]>>

\* C14: the exploded list of each concept of the viewer is the assembled
\* list repositioned: the same length and, index by index, the same name,
\* width, depth and thickness (and the same triangle indices); only the
\* anchor position and the colour may differ.
ExplodedListIsAssembledRepositioned ==
    concept_name \in ConceptNames =>
        /\ Len(exploded_meshes) = Len(assembled_panels)
        /\ \A n \in DOMAIN assembled_panels :
            /\ exploded_meshes[n].name = assembled_panels[n].name
            /\ Extents(exploded_meshes[n]) = Extents(assembled_panels[n])
            /\ exploded_meshes[n].i = assembled_panels[n].i
            /\ exploded_meshes[n].j = assembled_panels[n].j
            /\ exploded_meshes[n].k = assembled_panels[n].k

\* Concept 4's lists were created: the left leg of the exploded list is the
\* assembled left leg, 11 x 16 x 0.25, moved to x = -8 and recoloured.
LeftLegMovedAndRecoloured ==
    /\ concept_name = "Concept 4: Thin Slab Legs"
    /\ Len(exploded_meshes) = 3
    /\ Extents(assembled_panels[2]) = <<440, 640, 10>>
    /\ assembled_panels[2].vertices[1] = <<0, 0, 0>>
    /\ exploded_meshes[2].vertices[1] = <<-320, 0, 0>>
    /\ exploded_meshes[2].color # assembled_panels[2].color

\* The draw_* methods of BenchDrawing.
DrawOps == {"draw_title_block", "draw_orthographic_views", "draw_isometric_view",
            "draw_exploded_view", "draw_flat_patterns"}

\* The index in a document of the text element that reads txt (0: none).
TitleAt(doc, txt) ==
    IF \E n \in DOMAIN doc : doc[n].kind = "text" /\ doc[n].text = txt
    THEN CHOOSE n \in DOMAIN doc : doc[n].kind = "text" /\ doc[n].text = txt
    ELSE 0

\* C15: the document lists the drawing elements in the order they were
\* added and never drops or reorders one.  Every step keeps the elements
\* already added, in place, before the ones it adds; to_svg writes them in
\* that order between the defs section and the closing tag, so the sections
\* of the generation run follow one another in the document; and every
\* draw_* call that returns, returns more than the y-offset it was given.
ElementsKeptInOrderAdded ==
    [][ /\ Len(elements') >= Len(elements)
        /\ SubSeq(elements', 1, Len(elements)) = elements
        /\ (call'.op \in DrawOps /\ error' = "none") =>
              (call'.args[1] = y /\ y' > y)
        /\ call'.op = "save" =>
              /\ Len(svg') = Len(elements) + 3
              /\ \A n \in DOMAIN elements : svg'[n + 2] = elements[n]
              /\ svg'[1].kind = "svg" /\ svg'[2].kind = "defs"
              /\ svg'[Len(svg')].kind = "/svg"
              /\ 0 < TitleAt(svg', "concept_name")
              /\ TitleAt(svg', "concept_name") < TitleAt(svg', "ORTHOGRAPHIC VIEWS")
              /\ TitleAt(svg', "ORTHOGRAPHIC VIEWS") < TitleAt(svg', "ISOMETRIC VIEW")
              /\ TitleAt(svg', "ISOMETRIC VIEW") < TitleAt(svg', "EXPLODED ASSEMBLY")
              /\ TitleAt(svg', "EXPLODED ASSEMBLY") < TitleAt(svg', "FLAT PATTERNS") ]_vars

\* The generation run of a three-panel list was saved: the document holds
\* every element, the title block first.
ThreePanelDrawingSaved ==
    /\ call.op = "save"
    /\ Len(panels) = 3
    /\ Len(svg) = Len(elements) + 3
    /\ TitleAt(svg, "concept_name") = 3
    /\ y > 1400

\* The panel outlines draw_flat_patterns added, in the order added.
FlatOutlines ==
    LET IsRect(e) == e.kind = "rect"
    IN  SelectSeq(SubSeq(elements, call.base + 1, Len(elements)), IsRect)

\* C16: draw_flat_patterns lays the panels out in list order down a column
\* that starts at x = 100 and at the section's starting y (the y-offset
\* given plus 35): the next outline's top is 80 below the outline's bottom
\* unless that running y exceeds 1400, and then the next outline is at the
\* starting y, 400 further right.  So when the starting y is at most 1400,
\* every top edge is at most 1400, and no two outlines of a column overlap.
FlatPatternsWrapIntoColumns ==
    call.op = "draw_flat_patterns" =>
        LET r == FlatOutlines
            start == call.args[1] + 35
        IN  /\ Len(r) = Len(panels)
            /\ \A n \in DOMAIN r :
                /\ r[n].w = PanelAt(n).width * call.args[2]
                /\ r[n].h = PanelAt(n).depth * call.args[2]
            /\ r # <<>> => r[1].pts[1] = P2(100, start)
            /\ \A n \in 1..(Len(r) - 1) :
                  IF r[n].pts[1].sy + r[n].h + 80 > 1400
                  THEN r[n + 1].pts[1] = P2(r[n].pts[1].sx + 400, start)
                  ELSE r[n + 1].pts[1] = P2(r[n].pts[1].sx, r[n].pts[1].sy + r[n].h + 80)
            /\ start <= 1400 => \A n \in DOMAIN r : r[n].pts[1].sy <= 1400
            /\ \A m, n \in DOMAIN r :
                  (m < n /\ r[m].pts[1].sx = r[n].pts[1].sx) =>
                      r[m].pts[1].sy + r[m].h < r[n].pts[1].sy

\* The seat at scale 20 ran past the limit, and the panel after it was
\* placed at the top of the second column.
SecondPanelStartsSecondColumn ==
    /\ call.op = "draw_flat_patterns"
    /\ Len(FlatOutlines) >= 2
    /\ FlatOutlines[1].pts[1] = P2(100, 1140)
    /\ FlatOutlines[1].h = 220
    /\ FlatOutlines[2].pts[1] = P2(500, 1140)

\* C17: every call of draw_orthographic_views, draw_isometric_view,
\* draw_exploded_view and draw_flat_patterns completes without raising an
\* error, for every panel list, the empty list and a single panel included.
EveryDrawCallReturns ==
    call.op \in DrawOps => error = "none"

\* C18: p.rotate_y(theta).rotate_y(-theta) is p within the tolerance of the
\* arithmetic: y is untouched and x and z each come back within two
\* spacings of the number format; and it is p exactly for every
\* cosine/sine pair with cos^2 + sin^2 = 1.
RotateYRoundTrip ==
    call.op = "rotate_y_back" =>
        LET p == points[call.args[4]]
            q == points[ret]
        IN  /\ q.y = p.y
            /\ q.x - p.x \in -2..2
            /\ q.z - p.z \in -2..2
            /\ call.args[2] * call.args[2] + call.args[3] * call.args[3]
                    = AngleUnit * AngleUnit => q = p

\* A point off the axis went through 45 degrees and back, through rounded
\* intermediate coordinates.
RotatedBackFromFortyFiveDegrees ==
    /\ call.op = "rotate_y_back"
    /\ call.args[2] = 181 /\ call.args[3] = -181
    /\ points[call.args[4]].x # 0
    /\ points[call.args[4]].z # 0
    /\ points[call.args[1]] # points[call.args[4]]
    /\ points[ret].x - points[call.args[4]].x \in -2..2
    /\ points[ret].z - points[call.args[4]].z \in -2..2

\* Element e is the polygon through the isometric images of the corners
\* ks (numbered from 0) of the corner list cs, in that order.
FaceDrawn(e, cs, ks) ==
    /\ elements[e].kind = "polygon"
    /\ Len(elements[e].pts) = 4
    /\ \A m \in 1..4 :
          elements[e].pts[m].iso =
              <<cs[ks[m] + 1].x, cs[ks[m] + 1].y, cs[ks[m] + 1].z, call.args[2]>>

\* C19: draw_exploded_view emits, after the section title, for each
\* exploded panel in list order the top face (corners 4,5,6,7), the right
\* face (corners 1,2,6,5) and the name label, and the arrows only after all
\* panels; draw_isometric_view emits for each panel in list order the bottom
\* face (corners 0,1,2,3), the top face and the right face, and nothing is
\* sorted by depth or reordered.
FacesDrawnInListOrder ==
    /\ call.op = "draw_exploded_view" =>
        LET n == Len(exploded_panels)
            first == call.base + 1
        IN  /\ Len(elements) >= first + 3 * n
            /\ \A i \in 1..n :
                LET cs == get_corners(points, objs[exploded_panels[i]])
                    e == first + 3 * (i - 1)
                IN  /\ FaceDrawn(e + 1, cs, <<4, 5, 6, 7>>)
                    /\ FaceDrawn(e + 2, cs, <<1, 2, 6, 5>>)
                    /\ elements[e + 3].kind = "text"
                    /\ elements[e + 3].text = objs[exploded_panels[i]].name
            /\ \A e \in (first + 3 * n + 1)..Len(elements) : elements[e].kind = "line"
    /\ call.op = "draw_isometric_view" =>
        LET n == Len(panels)
            first == call.base + 1
        IN  /\ Len(elements) >= first + 3 * n
            /\ \A i \in 1..n :
                LET cs == get_corners(points, PanelAt(i))
                    e == first + 3 * (i - 1)
                IN  /\ FaceDrawn(e + 1, cs, <<0, 1, 2, 3>>)
                    /\ FaceDrawn(e + 2, cs, <<4, 5, 6, 7>>)
                    /\ FaceDrawn(e + 3, cs, <<1, 2, 6, 5>>)
            /\ \A e \in (first + 3 * n + 1)..Len(elements) : elements[e].kind = "text"

\* Two panels were exploded and drawn: top face, right face and label of
\* the first, then of the second, then the one arrow.
TwoExplodedPanelsThenArrow ==
    /\ call.op = "draw_exploded_view"
    /\ Len(exploded_panels) = 2
    /\ Len(elements) = call.base + 8
    /\ [e \in 1..8 |-> elements[call.base + e].kind] =
          <<"text", "polygon", "polygon", "text", "polygon", "polygon", "text", "line">>
    /\ elements[call.base + 4].text = objs[exploded_panels[1]].name
    /\ elements[call.base + 7].text = objs[exploded_panels[2]].name

\* The sign of a number: the quotient d / length of a segment parallel to
\* an axis, whose length is the magnitude of d.
Sign(d) == IF d > 0 THEN 1 ELSE IF d < 0 THEN -1 ELSE 0

\* Element e is a line from (ax, ay) to (bx, by).
LineFromTo(e, ax, ay, bx, by) ==
    /\ elements[e].kind = "line"
    /\ elements[e].pts = <<P2(ax, ay), P2(bx, by)>>

\* The four elements from index e on are the dimension of the segment from
\* (x1, y1) to (x2, y2), parallel to an axis, at the given offset: the
\* witness line from (x1, y1), the witness line from (x2, y2), the segment
\* translated by (-dy, dx) / length * offset with both arrow markers, and
\* the label, anchored at the midpoint of the translated segment with its
\* baseline 3 above it.
DimensionDrawn(e, x1, y1, x2, y2, offset) ==
    LET ux == (-Sign(y2 - y1)) * offset
        uy == Sign(x2 - x1) * offset
    IN  /\ LineFromTo(e, x1, y1, x1 + ux, y1 + uy)
        /\ LineFromTo(e + 1, x2, y2, x2 + ux, y2 + uy)
        /\ LineFromTo(e + 2, x1 + ux, y1 + uy, x2 + ux, y2 + uy)
        /\ elements[e].ms = "" /\ elements[e].me = ""
        /\ elements[e + 1].ms = "" /\ elements[e + 1].me = ""
        /\ elements[e + 2].ms = "url(#arrowhead-start)"
        /\ elements[e + 2].me = "url(#arrowhead)"
        /\ elements[e + 3].kind = "text"
        /\ 2 * elements[e + 3].pts[1].sx = (x1 + ux) + (x2 + ux)
        /\ 2 * (elements[e + 3].pts[1].sy + 3) = (y1 + uy) + (y2 + uy)

\* The index of the outline of panel n once draw_flat_patterns returned.
OutlineIndex(n) == Len(elements) - FlatElements(n) + 1

\* C20: dimension_line with two distinct endpoints appends exactly four
\* elements: the two witness lines, the dimension line with both markers
\* and the label at its midpoint, the dimension line being the segment
\* translated by (-dy, dx) / length * offset.  So in draw_flat_patterns
\* (offset -15) the width dimension of an outline at (px, py) lies at
\* y = py - 15 and the depth dimension at x = px + 15.
DimensionLineAppendsFour ==
    /\ ( /\ call.op = "dimension_line"
         /\ <<call.args[1], call.args[2]>> # <<call.args[3], call.args[4]>> ) =>
        /\ Len(elements) = call.base + 4
        /\ DimensionDrawn(call.base + 1, call.args[1], call.args[2],
                          call.args[3], call.args[4], call.args[5])
    /\ call.op = "draw_flat_patterns" =>
        \A n \in DOMAIN panels :
            LET o == OutlineIndex(n)
                px == elements[o].pts[1].sx
                py == elements[o].pts[1].sy
                w == o + 1 + 2 * Len(PanelAt(n).holes)
                d == IF PanelAt(n).width = 0 THEN w ELSE w + 4
            IN  /\ elements[o].kind = "rect"
                /\ PanelAt(n).width # 0 =>
                    /\ DimensionDrawn(w, px, py, px + elements[o].w, py, -15)
                    /\ elements[w + 2].pts[1].sy = py - 15
                    /\ elements[w + 2].pts[2].sy = py - 15
                /\ PanelAt(n).depth # 0 =>
                    /\ DimensionDrawn(d, px, py, px, py + elements[o].h, -15)
                    /\ elements[d + 2].pts[1].sx = px + 15
                    /\ elements[d + 2].pts[2].sx = px + 15

\* dimension_line was called from (5,5) to (9,5) with offset -15: the
\* dimension line is the third of four new elements, at y = -10.
HorizontalDimensionAbove ==
    /\ call.op = "dimension_line"
    /\ call.args = <<5, 5, 9, 5, -15>>
    /\ Len(elements) = call.base + 4
    /\ elements[call.base + 3].pts = <<P2(5, -10), P2(9, -10)>>
    /\ elements[call.base + 4].pts = <<P2(7, -13)>>

=============================================================================
